---- MODULE Spec2Model ----
(***************************************************************************)
(* A model of the gostlink ST-Link driver: the status decoder and the      *)
(* command engine (errors.go, debugger.go, transfer.go), the memory read   *)
(* planner (memory.go, usb.go) and the access-port registry                *)
(* (accessport files, NewStLink/Close).                                    *)
(***************************************************************************)
EXTENDS Integers, Sequences, FiniteSets, TLC

VARIABLES
    \* ---- probe handle (StLink struct) ----
    stMode,        \* h.stMode
    jtagApi,       \* h.version.jtagApi
    \* ---- command engine: one call of usbCmdAllowRetry / usbTransferErrCheck ----
    cmdPc,         \* "idle", "loop" (inside the for-loop of usbCmdAllowRetry), "done"
    cmdOp,         \* "none", "retry" (usbCmdAllowRetry), "checked" (usbTransferErrCheck)
    retries,       \* local variable retries of usbCmdAllowRetry
    transfers,     \* number of usbTransferNoErrCheck calls made by the current call
    decodes,       \* number of usbErrorCheck calls made by the current call
    sleeps,        \* arguments of time.Sleep, in nanoseconds, in call order
    lastByte,      \* first response byte handed to the last usbErrorCheck (-1: none)
    dpWaits,       \* number of usbErrorCheck calls of the current call that saw 0x14
    decoded,       \* value returned by the last usbErrorCheck
    cmdErr,        \* value returned by the call
    \* ---- memory read planner: one call of usb_read_mem ----
    memPc,         \* "idle", "run", "done"
    maxMemPacket,  \* h.max_mem_packet
    has16,         \* flag STLINK_F_HAS_MEM_16BIT
    rw8_512,       \* flag HAS_RW8_512BYTES
    req,           \* the request (addr, size, count) as passed by the caller
    outer,         \* locals of the top-level usb_read_mem frame
    inner,         \* locals of the recursive (size 1) usb_read_mem frame
    prevTx,        \* the memory command sent before curTx, with its returned status
    curTx,         \* the memory command sent last, with its returned status
    nTx,           \* number of memory commands sent by the current call
    allOk,         \* the probe answered OK to every memory command of the current call
    memRet,        \* value returned by usb_read_mem
    rwStatus2,     \* flag STLINK_F_HAS_GETLASTRWSTATUS2
    curIo,         \* the USB traffic of the memory command sent last
    databuf,       \* h.databuf: the bytes written to it since the call began
    sink,          \* the caller's buffer
    \* ---- access-port registry ----
    openedAp,      \* the package variable openedAp (bitmap of 256 bits)
    libUsbCtx,     \* the process-wide USB context pointer: "nil", "live", "closed"
    hState,        \* the probe handle: "none", "open" (returned by NewStLink), "closed"
                   \* (Close was called on it); "crashed": the process has panicked
    hasApInit,     \* flagHasApInit of the handle's version flags
    initApDone,    \* history: access ports whose INIT_AP command completed successfully
    openApOk,      \* history: access ports k for which usbOpenAccessPort(k) returned nil
                   \* on a probe with flagHasApInit
    apLast,        \* last access-port operation: what was asked and what happened
    \* ---- version and capability probe: one call of useParseVersion ----
    verPc,         \* "idle", "done" (parsed), "opened", "rejected" (NewStLink returned)
    verIn,         \* the answers of the probe the call consumed
    version,       \* h.version: stlink, jtag, swim
    verFlags,      \* h.version.flags: the set of bit indices that are set
    verOk,         \* useParseVersion returned nil
    \* ---- RTT engine ----
    rttPc,         \* "idle", "done", "crashed" (run-time panic), "hung" (endless loop)
    seggerRtt,     \* h.seggerRtt: ramStart, offset, maxNumUpBuffers, maxNumDownBuffers
    rttChannels,   \* h.seggerRtt.controlBlock.channels: the snapshot vector
    target,        \* write and read offsets of the channel descriptors in target RAM
    rttQuiet,      \* the last operation was a drain that returned nil with every write
                   \* of a read offset done, and the target has not written since
    rttLast,       \* the last RTT operation: what was asked and what happened
    \* ---- functions without state: one call ----
    fnPc,          \* "idle", "done"
    fnArgs,        \* the arguments of the call
    fnRes          \* what the call returned

handleVars == <<stMode, jtagApi>>
cmdVars == <<cmdPc, cmdOp, retries, transfers, decodes, sleeps, lastByte, dpWaits, decoded,
             cmdErr>>
memVars == <<memPc, maxMemPacket, has16, rw8_512, req, outer, inner, prevTx, curTx, nTx, allOk,
             memRet, rwStatus2, curIo, databuf, sink>>
apVars == <<openedAp, libUsbCtx, hState, hasApInit, initApDone, openApOk, apLast>>
verVars == <<verPc, verIn, version, verFlags, verOk>>
rttVars == <<rttPc, seggerRtt, rttChannels, target, rttQuiet, rttLast>>
fnVars == <<fnPc, fnArgs, fnRes>>
tailVars == <<fnVars>>
extVars == <<verVars, rttVars, tailVars>>
vars == <<handleVars, cmdVars, memVars, apVars, extVars>>

----------------------------------------------------------------------------
(* Program constants *)

StLinkModeDebugJtag == 3
StLinkModeDebugSwd == 4
StLinkModeDebugSwim == 5

jTagApiV1 == 1
jTagApiV2 == 2
jTagApiV3 == 3

swimErrorOk == 0
swimErrorBusy == 1
debugErrorOk == 128
debugErrorFault == 129
jTagGetIdCodeError == 9
jTagWriteError == 12
jTagWriteVerifyError == 13
swdAccessPortWait == 16
swdAccessPortFault == 17
swdAccessPortError == 18
swdAccessPortParityError == 19
swdDebugPortWait == 20
swdDebugPortFault == 21
swdDebugPortError == 22
swdDebugPortParityError == 23
swdAccessPortWDataError == 24
swdAccessPortStickyError == 25
swdAccessPortStickOrRunError == 26
badAccessPortError == 29

usbErrorOK == 0
usbErrorWait == -1
usbErrorFail == -2
usbErrorTargetUnalignedAccess == -3
usbErrorCommandNotFound == -4

flagHasTrace == 1
flagHasSwdSetFreq == 2
flagHasJtagSetFreq == 3
flagHasMem16Bit == 4
flagHasGetLastRwStatus2 == 5
flagHasDapReg == 6
flagQuirkJtagDpRead == 7
flagHasApInit == 8
flagHasDpBankSel == 9
flagHasRw8Bytes512 == 10
flagFixCloseAp == 11

stLinkV2Pid == 14152
stLinkV21Pid == 14155
stLinkV21NoMsdPid == 14162
stLinkV3EPid == 14158

seggerRttBufferSize == 24
seggerRttControlBlockSize == 24
DefaultRamStart == 536870912

maximumWaitRetries == 8
debugAccessPortSelectionMaximum == 255
maxReadWrite8 == 64
v3MaxReadWrite8 == 512

Byte == 0..255
Modes == {StLinkModeDebugJtag, StLinkModeDebugSwd, StLinkModeDebugSwim}
Apis == {jTagApiV1, jTagApiV2, jTagApiV3}

----------------------------------------------------------------------------
(* Error values.  A Go error is nil, a *usbError carrying a usbErrorCode,  *)
(* or a transport error of the USB layer (io).                             *)

NilError == [nil |-> TRUE, code |-> usbErrorOK, io |-> FALSE]

newUsbError(code) == [nil |-> FALSE, code |-> code, io |-> FALSE]

IoError == [nil |-> FALSE, code |-> usbErrorFail, io |-> TRUE]

----------------------------------------------------------------------------
(* Status decoder: usbErrorCheck *)

usbErrorCheck_FaultOk(mode, api, errorStatus) ==
    IF mode = StLinkModeDebugSwim
    THEN CASE errorStatus = swimErrorOk -> NilError
           [] errorStatus = swimErrorBusy -> newUsbError(usbErrorWait)
           [] OTHER -> newUsbError(usbErrorFail)
    ELSE LET s == IF api = jTagApiV1 THEN debugErrorOk ELSE errorStatus
         IN CASE s = debugErrorOk -> NilError
              [] s = swdAccessPortWait -> newUsbError(usbErrorWait)
              [] s = swdDebugPortWait -> newUsbError(usbErrorWait)
              [] s = jTagWriteVerifyError -> newUsbError(usbErrorOK)
              [] s = swdAccessPortFault -> newUsbError(usbErrorOK)
              [] OTHER -> newUsbError(usbErrorFail)

usbErrorCheck(mode, api, errorStatus) ==
    IF mode = StLinkModeDebugSwim
    THEN CASE errorStatus = swimErrorOk -> NilError
           [] errorStatus = swimErrorBusy -> newUsbError(usbErrorWait)
           [] OTHER -> newUsbError(usbErrorFail)
    ELSE LET s == IF api = jTagApiV1 THEN debugErrorOk ELSE errorStatus
         IN CASE s = debugErrorOk -> NilError
              [] s = debugErrorFault -> newUsbError(usbErrorFail)
              [] s = swdAccessPortWait -> newUsbError(usbErrorWait)
              [] s = swdDebugPortWait -> newUsbError(usbErrorWait)
              [] s = jTagGetIdCodeError -> newUsbError(usbErrorFail)
              [] s = jTagWriteError -> newUsbError(usbErrorFail)
              [] s = jTagWriteVerifyError -> newUsbError(usbErrorOK)
              [] s = swdAccessPortFault -> newUsbError(usbErrorFail)
              [] s = swdAccessPortError -> newUsbError(usbErrorFail)
              [] s = swdAccessPortParityError -> newUsbError(usbErrorFail)
              [] s = swdDebugPortFault -> newUsbError(usbErrorFail)
              [] s = swdDebugPortError -> newUsbError(usbErrorFail)
              [] s = swdDebugPortParityError -> newUsbError(usbErrorFail)
              [] s = swdAccessPortWDataError -> newUsbError(usbErrorFail)
              [] s = swdAccessPortStickyError -> newUsbError(usbErrorFail)
              [] s = swdAccessPortStickOrRunError -> newUsbError(usbErrorFail)
              [] s = badAccessPortError -> newUsbError(usbErrorFail)
              [] OTHER -> newUsbError(usbErrorFail)

----------------------------------------------------------------------------
(* Command engine *)

Shl1_Times2(n) == 2 * n

\* 1 << n
Shl1(n) == 2 ^ n

RetryDelay_Linear(r) == ((r + 1) * 1000) * 1000

\* debugger.go:45,49: delayUs = (1 << retries) * 1000; time.Sleep(delayUs * 1000)
RetryDelay(r) == (Shl1(r) * 1000) * 1000

MayRetry_OffByOne(err, r) ==
    ~err.nil /\ err.code = usbErrorWait /\ r <= maximumWaitRetries

\* debugger.go:41,44: err != nil && code == usbErrorWait && retries < maximumWaitRetries
MayRetry(err, r) ==
    ~err.nil /\ err.code = usbErrorWait /\ r < maximumWaitRetries

\* debugger.go:23: the command is transferred unless SWIM mode and first pass
SendsCommand(mode, r) == (mode /= StLinkModeDebugSwim) \/ r > 0

CmdInitVars ==
    /\ cmdPc = "idle"
    /\ cmdOp = "none"
    /\ retries = 0
    /\ transfers = 0
    /\ decodes = 0
    /\ sleeps = <<>>
    /\ lastByte = -1
    /\ dpWaits = 0
    /\ decoded = NilError
    /\ cmdErr = NilError

\* entry of usbCmdAllowRetry: var retries int = 0
CmdAllowRetryCall ==
    /\ cmdPc = "idle"
    /\ cmdPc' = "loop"
    /\ cmdOp' = "retry"
    /\ retries' = 0
    /\ transfers' = 0
    /\ decodes' = 0
    /\ sleeps' = <<>>
    /\ lastByte' = -1
    /\ dpWaits' = 0
    /\ decoded' = NilError
    /\ cmdErr' = NilError
    /\ UNCHANGED <<handleVars, memVars, apVars>>
    /\ UNCHANGED extVars

\* one pass of the for-loop of usbCmdAllowRetry; ioFail: the USB transfer fails,
\* b: the first byte of the data buffer seen by usbErrorCheck
CmdAllowRetryPass ==
    /\ cmdPc = "loop"
    /\ \E ioFail \in BOOLEAN, b \in Byte :
        LET sends == SendsCommand(stMode, retries)
            err == usbErrorCheck(stMode, jtagApi, b)
        IN IF sends /\ ioFail
           THEN /\ transfers' = transfers + 1
                /\ cmdPc' = "done"
                /\ cmdErr' = IoError
                /\ UNCHANGED <<retries, decodes, sleeps, lastByte, dpWaits, decoded>>
           ELSE /\ transfers' = IF sends THEN transfers + 1 ELSE transfers
                /\ decodes' = decodes + 1
                /\ lastByte' = b
                /\ dpWaits' = IF b = swdDebugPortWait THEN dpWaits + 1 ELSE dpWaits
                /\ decoded' = err
                /\ IF MayRetry(err, retries)
                   THEN /\ sleeps' = Append(sleeps, RetryDelay(retries))
                        /\ retries' = retries + 1
                        /\ UNCHANGED <<cmdPc, cmdErr>>
                   ELSE /\ cmdPc' = "done"
                        /\ cmdErr' = err
                        /\ UNCHANGED <<retries, sleeps>>
    /\ UNCHANGED <<cmdOp, handleVars, memVars, apVars>>
    /\ UNCHANGED extVars

\* transfer.go:290-299: usbTransferNoErrCheck, then usbErrorCheck
usbTransferErrCheck(ioFail, mode, api, b) ==
    IF ioFail THEN IoError ELSE usbErrorCheck(mode, api, b)

TransferErrCheckCall ==
    /\ cmdPc = "idle"
    /\ \E ioFail \in BOOLEAN, b \in Byte :
        /\ cmdErr' = usbTransferErrCheck(ioFail, stMode, jtagApi, b)
        /\ decodes' = IF ioFail THEN 0 ELSE 1
        /\ lastByte' = IF ioFail THEN -1 ELSE b
        /\ dpWaits' = IF ~ioFail /\ b = swdDebugPortWait THEN 1 ELSE 0
        /\ decoded' = IF ioFail THEN NilError ELSE usbErrorCheck(stMode, jtagApi, b)
    /\ cmdPc' = "done"
    /\ cmdOp' = "checked"
    /\ retries' = 0
    /\ transfers' = 1
    /\ sleeps' = <<>>
    /\ UNCHANGED <<handleVars, memVars, apVars>>
    /\ UNCHANGED extVars

\* the caller takes the result and the call's locals are gone
CmdReturn ==
    /\ cmdPc = "done"
    /\ cmdPc' = "idle"
    /\ cmdOp' = "none"
    /\ retries' = 0
    /\ transfers' = 0
    /\ decodes' = 0
    /\ sleeps' = <<>>
    /\ lastByte' = -1
    /\ dpWaits' = 0
    /\ decoded' = NilError
    /\ cmdErr' = NilError
    /\ UNCHANGED <<handleVars, memVars, apVars>>
    /\ UNCHANGED extVars

----------------------------------------------------------------------------
(* Memory read planner: usb_read_mem and the 8/16/32-bit read commands *)

MaxCount == 4

\* addresses of the requests the planner is driven with: 0x20000000 (word aligned),
\* 0x20000001 and 0x20000002 (misaligned), and 0x200003F8, 0x200003F9, 0x200003FF
\* (8, 7 bytes and 1 byte before the end of a 1024-byte page)
ReqAddrs == {536870912, 536870913, 536870914, 536871928, 536871929, 536871935}

\* element counts of the requests: the small ones, and one whose 8-bit tail
\* needs more than one 64-byte block
ReqCounts == (0..MaxCount) \cup {17}

ReqSizes == {1, 2, 4}

\* usb_get_rw_status / a failed transfer: what a sent memory command can return
ReadStatus == {usbErrorOK, usbErrorWait, usbErrorFail}

RECURSIVE BitAnd(_, _)
\* a & b on unsigned integers
BitAnd(a, b) ==
    IF a = 0 \/ b = 0 THEN 0
    ELSE (IF a % 2 = 1 /\ b % 2 = 1 THEN 1 ELSE 0) + 2 * BitAnd(a \div 2, b \div 2)

maxBlockSize_WholePage(tarAutoIncrBlock, address) == tarAutoIncrBlock

\* usb.go:103-111 (uint32 arithmetic; with the block sizes and RAM addresses used
\* here no operation of the planner wraps around)
maxBlockSize(tarAutoIncrBlock, address) ==
    LET maxTarBlock == tarAutoIncrBlock - BitAnd(tarAutoIncrBlock - 1, address)
    IN IF maxTarBlock = 0 THEN 4 ELSE maxTarBlock

\* usb.go:113-119
usbBlock(flag512) == IF flag512 THEN v3MaxReadWrite8 ELSE maxReadWrite8

NoTx == [w |-> 0, addr |-> 0, len |-> 0, st |-> usbErrorOK, sent |-> FALSE]

NoFrame == [addr |-> 0, size |-> 0, count |-> 0, br |-> 0, retries |-> 0, pos |-> "none",
            buffer_pos |-> 0]

NoInner == [active |-> FALSE, addr |-> 0, count |-> 0, retries |-> 0, buffer_pos |-> 0]

NoReq == [addr |-> 0, size |-> 0, count |-> 0]

STLINK_DATA_SIZE == 4096

\* a byte that is not a byte of the target memory: what a buffer held before the
\* call, a byte of a status answer, the second byte of the answer to a one-byte
\* read; a byte of the target memory is written as its address
otherByte == -1

usb_get_rw_status_Short(st) ==
    IF jtagApi = jTagApiV1 THEN [st |-> usbErrorOK, poll |-> 0] ELSE [st |-> st, poll |-> 2]

\* transfer.go:204-226 (427-449): no command on API V1; else a status command whose
\* answer of 12 or 2 bytes is decoded to st; poll is the number of bytes read
usb_get_rw_status(st) ==
    IF jtagApi = jTagApiV1 THEN [st |-> usbErrorOK, poll |-> 0]
    ELSE IF rwStatus2 THEN [st |-> st, poll |-> 12]
    ELSE [st |-> st, poll |-> 2]

\* the statuses the poll after a memory command can decode; no poll is made after
\* a failed transfer
PollStatus(xferOk) == IF xferOk THEN ReadStatus ELSE {usbErrorOK}

\* memory.go:46-55, 85-94, 118-127: a failed transfer gives ERROR_FAIL, else the
\* command returns what usb_get_rw_status returns
ReadResult(xferOk, st) == IF xferOk THEN usb_get_rw_status(st).st ELSE usbErrorFail

\* memory.go:19, 41-44: the number of bytes the 8-bit read takes from the probe
ReadLen8(len) == IF len = 1 THEN len + 1 ELSE len

\* memory.go:18-56: refused without a transfer when len exceeds the block size
usb_read_mem8(addr, len, xferOk, st) ==
    IF len > usbBlock(rw8_512)
    THEN [w |-> 8, addr |-> addr, len |-> len, st |-> usbErrorFail, sent |-> FALSE]
    ELSE [w |-> 8, addr |-> addr, len |-> len, st |-> ReadResult(xferOk, st), sent |-> TRUE]

\* memory.go:59-95
usb_read_mem16(addr, len, xferOk, st) ==
    IF ~has16
    THEN [w |-> 16, addr |-> addr, len |-> len, st |-> usbErrorCommandNotFound, sent |-> FALSE]
    ELSE IF (len % 2) > 0 \/ (addr % 2) > 0
    THEN [w |-> 16, addr |-> addr, len |-> len, st |-> usbErrorTargetUnalignedAccess, sent |-> FALSE]
    ELSE [w |-> 16, addr |-> addr, len |-> len, st |-> ReadResult(xferOk, st), sent |-> TRUE]

\* memory.go:97-128
usb_read_mem32(addr, len, xferOk, st) ==
    IF (len % 4) > 0 \/ (addr % 4) > 0
    THEN [w |-> 32, addr |-> addr, len |-> len, st |-> usbErrorTargetUnalignedAccess, sent |-> FALSE]
    ELSE [w |-> 32, addr |-> addr, len |-> len, st |-> ReadResult(xferOk, st), sent |-> TRUE]

\* memory.go:146-154: the block length chosen at the top of the loop
BlockAtTop(o) ==
    LET cap == IF o.size /= 1 THEN maxBlockSize(maxMemPacket, o.addr) ELSE usbBlock(rw8_512)
    IN IF o.count < cap THEN o.count ELSE cap

HeadNeeded_Never(addr, size) == FALSE

\* memory.go:172
HeadNeeded(addr, size) == BitAnd(addr, size - 1) > 0

\* memory.go:173
HeadBytes(addr, size) == size - BitAnd(addr, size - 1)

NextAddr_Stuck(addr, n) == addr

\* memory.go:190, 219: addr += head_bytes, addr += bytes_remaining
NextAddr(addr, n) == addr + n

TailNeeded_Never(br, size) == FALSE

\* memory.go:195: the block is not a multiple of the access width
TailNeeded(br, size) == BitAnd(br, size - 1) > 0

\* memory.go:177, 206 (and the same test in the recursive frame)
WaitRetry(st, r) == st = usbErrorWait /\ r < maximumWaitRetries

NoIo == [rlen |-> 0, poll |-> 0, pst |-> usbErrorOK, xfer |-> FALSE, copied |-> 0]

\* the answer of the probe to a read of len bytes at addr of which rlen bytes are taken
Answer(addr, len, rlen) == [i \in 1..rlen |-> IF i <= len THEN addr + (i - 1) ELSE otherByte]

\* buf with bytes written over its start
Overlay(bytes, buf) == bytes \o SubSeq(buf, Len(bytes) + 1, Len(buf))

\* h.databuf[i - 1]
DataAt(buf, i) == IF i <= Len(buf) THEN buf[i] ELSE otherByte

\* copy(buffer[:n], h.databuf) copies min(n, len(h.databuf)) bytes
CopyLen(n) == IF n < STLINK_DATA_SIZE THEN n ELSE STLINK_DATA_SIZE

\* memory.go:53, 92, 125: copy(buffer[:n], h.databuf) on the caller's buffer dst
copy(dst, n, buf) == [i \in 1..Len(dst) |-> IF i <= CopyLen(n) THEN DataAt(buf, i) ELSE dst[i]]

\* memory.go:41-44, 85, 118
ReadLen(tx) == IF tx.w = 8 THEN ReadLen8(tx.len) ELSE tx.len

\* memory.go:46-55 (85-94, 118-127): the transfer into h.databuf, the copy into
\* buffer[:n] and the status poll (which also answers into h.databuf) of command tx
Transfer(tx, xferOk, st, n) ==
    IF ~tx.sent
    THEN /\ curIo' = NoIo
         /\ UNCHANGED <<databuf, sink>>
    ELSE IF ~xferOk
    THEN /\ curIo' = [rlen |-> ReadLen(tx), poll |-> 0, pst |-> usbErrorOK, xfer |-> FALSE,
                      copied |-> 0]
         /\ UNCHANGED <<databuf, sink>>
    ELSE LET got == Overlay(Answer(tx.addr, tx.len, ReadLen(tx)), databuf)
             status == usb_get_rw_status(st)
         IN /\ sink' = copy(sink, n, got)
            /\ databuf' = Overlay([i \in 1..status.poll |-> otherByte], got)
            /\ curIo' = [rlen |-> ReadLen(tx), poll |-> status.poll, pst |-> status.st,
                         xfer |-> TRUE, copied |-> CopyLen(n)]

MemInitVars ==
    /\ curIo = NoIo
    /\ databuf = <<>>
    /\ sink = <<>>
    /\ memPc = "idle"
    /\ req = NoReq
    /\ outer = NoFrame
    /\ inner = NoInner
    /\ prevTx = NoTx
    /\ curTx = NoTx
    /\ nTx = 0
    /\ allOk = TRUE
    /\ memRet = usbErrorOK

\* a call of a read command with buffer[:n]: it becomes the last command of the log
Log(tx, xferOk, st, n) ==
    /\ Transfer(tx, xferOk, st, n)
    /\ prevTx' = curTx
    /\ curTx' = tx
    /\ nTx' = IF tx.sent THEN nTx + 1 ELSE nTx
    /\ allOk' = (allOk /\ (tx.sent => tx.st = usbErrorOK))

\* usb_read_mem returns ret
MemFinish(ret) ==
    /\ memPc' = "done"
    /\ memRet' = ret
    /\ outer' = NoFrame
    /\ inner' = NoInner

\* memory.go:206-224: what the top-level frame does with the status of the block
\* of br bytes it just read at o.addr
OuterAfter(o, ret, br) ==
    IF WaitRetry(ret, o.retries)
    THEN /\ outer' = [o EXCEPT !.retries = @ + 1, !.pos = "top", !.br = br]
         /\ inner' = NoInner
         /\ UNCHANGED <<memPc, memRet>>
    ELSE IF ret /= usbErrorOK
    THEN MemFinish(ret)
    ELSE LET count2 == o.count - br
         IN IF count2 = 0
            THEN MemFinish(ret)
            ELSE /\ outer' = [o EXCEPT !.addr = NextAddr(@, br), !.count = count2,
                                       !.pos = "top", !.br = br,
                                       !.buffer_pos = @ + br]
                 /\ inner' = NoInner
                 /\ UNCHANGED <<memPc, memRet>>

\* memory.go:130-144: entry of usb_read_mem
ReadMemCall ==
    /\ memPc = "idle"
    /\ \E a \in ReqAddrs, s \in ReqSizes, c \in ReqCounts :
        LET count0 == c * s
            size0 == IF s = 2 /\ ~has16 THEN 1 ELSE s
        IN /\ req' = [addr |-> a, size |-> s, count |-> c]
           /\ curIo' = NoIo
           /\ databuf' = <<>>
           /\ sink' = [i \in 1..count0 |-> otherByte]
           /\ prevTx' = NoTx
           /\ curTx' = NoTx
           /\ nTx' = 0
           /\ allOk' = TRUE
           /\ IF count0 = 0
              THEN MemFinish(usbErrorOK)
              ELSE /\ memPc' = "run"
                   /\ memRet' = usbErrorOK
                   /\ inner' = NoInner
                   /\ outer' = [addr |-> a, size |-> size0, count |-> count0, br |-> 0,
                                retries |-> 0, pos |-> "top", buffer_pos |-> 0]
    /\ UNCHANGED <<maxMemPacket, has16, rw8_512, rwStatus2, handleVars, cmdVars, apVars>>
    /\ UNCHANGED extVars

\* memory.go:172-193: the 8-bit head read that brings addr to alignment
ReadMemHead ==
    /\ memPc = "run"
    /\ ~inner.active
    /\ outer.pos = "top"
    /\ outer.size /= 1
    /\ HeadNeeded(outer.addr, outer.size)
    /\ \E xferOk \in BOOLEAN : \E st \in PollStatus(xferOk) :
        LET br == BlockAtTop(outer)
            head == HeadBytes(outer.addr, outer.size)
            tx == usb_read_mem8(outer.addr, head, xferOk, st)
        IN /\ Log(tx, xferOk, st, Len(sink))
           /\ IF WaitRetry(tx.st, outer.retries)
              THEN /\ outer' = [outer EXCEPT !.retries = @ + 1, !.br = br]
                   /\ UNCHANGED <<memPc, memRet, inner>>
              ELSE IF tx.st /= usbErrorOK
              THEN MemFinish(tx.st)
              ELSE /\ outer' = [outer EXCEPT !.addr = NextAddr(@, head),
                                             !.count = @ - head,
                                             !.buffer_pos = @ + head,
                                             !.br = br - head,
                                             !.pos = "main"]
                   /\ UNCHANGED <<memPc, memRet, inner>>
    /\ UNCHANGED <<req, maxMemPacket, has16, rw8_512, rwStatus2, handleVars, cmdVars, apVars>>
    /\ UNCHANGED extVars

\* the block length in force at memory.go:195
BlockAtMain(o) == IF o.pos = "main" THEN o.br ELSE BlockAtTop(o)

AtMain(o) ==
    /\ memPc = "run"
    /\ ~inner.active
    /\ o.size /= 1
    /\ o.pos = "main" \/ (o.pos = "top" /\ ~HeadNeeded(o.addr, o.size))

\* memory.go:197-201: a 16- or 32-bit read of the block
ReadMemWide ==
    /\ AtMain(outer)
    /\ ~TailNeeded(BlockAtMain(outer), outer.size)
    /\ \E xferOk \in BOOLEAN : \E st \in PollStatus(xferOk) :
        LET br == BlockAtMain(outer)
            tx == IF outer.size = 2 THEN usb_read_mem16(outer.addr, br, xferOk, st)
                                    ELSE usb_read_mem32(outer.addr, br, xferOk, st)
        IN /\ Log(tx, xferOk, st, outer.buffer_pos)
           /\ OuterAfter(outer, tx.st, br)
    /\ UNCHANGED <<req, maxMemPacket, has16, rw8_512, rwStatus2, handleVars, cmdVars, apVars>>
    /\ UNCHANGED extVars

\* memory.go:195-196: the recursive call usb_read_mem(addr, 1, bytes_remaining)
ReadMemRecurse ==
    /\ AtMain(outer)
    /\ TailNeeded(BlockAtMain(outer), outer.size)
    /\ LET br == BlockAtMain(outer)
       IN /\ outer' = [outer EXCEPT !.br = br, !.pos = "main"]
          /\ inner' = [active |-> TRUE, addr |-> outer.addr, count |-> br, retries |-> 0,
                        buffer_pos |-> 0]
    /\ UNCHANGED <<memPc, memRet, prevTx, curTx, nTx, allOk, curIo, databuf, sink>>
    /\ UNCHANGED <<req, maxMemPacket, has16, rw8_512, rwStatus2, handleVars, cmdVars, apVars>>
    /\ UNCHANGED extVars

\* memory.go:144-154, 203-221 in the recursive frame (size 1): one 8-bit block
ReadMemInner ==
    /\ memPc = "run"
    /\ inner.active
    /\ \E xferOk \in BOOLEAN : \E st \in PollStatus(xferOk) :
        LET cap == usbBlock(rw8_512)
            brI == IF inner.count < cap THEN inner.count ELSE cap
            tx == usb_read_mem8(inner.addr, brI, xferOk, st)
            count2 == inner.count - brI
        IN /\ Log(tx, xferOk, st, inner.buffer_pos)
           /\ IF WaitRetry(tx.st, inner.retries)
              THEN /\ inner' = [inner EXCEPT !.retries = @ + 1]
                   /\ UNCHANGED <<memPc, memRet, outer>>
              ELSE IF tx.st /= usbErrorOK
              THEN OuterAfter(outer, tx.st, outer.br)
              ELSE IF count2 = 0
              THEN OuterAfter(outer, tx.st, outer.br)
              ELSE /\ inner' = [inner EXCEPT !.addr = NextAddr(@, brI), !.count = count2,
                                             !.buffer_pos = @ + brI]
                   /\ UNCHANGED <<memPc, memRet, outer>>
    /\ UNCHANGED <<req, maxMemPacket, has16, rw8_512, rwStatus2, handleVars, cmdVars, apVars>>
    /\ UNCHANGED extVars

\* memory.go:202-204: an 8-bit request, one block per pass
ReadMem8 ==
    /\ memPc = "run"
    /\ ~inner.active
    /\ outer.size = 1
    /\ \E xferOk \in BOOLEAN : \E st \in PollStatus(xferOk) :
        LET br == BlockAtTop(outer)
            tx == usb_read_mem8(outer.addr, br, xferOk, st)
        IN /\ Log(tx, xferOk, st, outer.buffer_pos)
           /\ OuterAfter(outer, tx.st, br)
    /\ UNCHANGED <<req, maxMemPacket, has16, rw8_512, rwStatus2, handleVars, cmdVars, apVars>>
    /\ UNCHANGED extVars

\* the caller takes the result of usb_read_mem and the call's locals are gone
ReadMemReturn ==
    /\ memPc = "done"
    /\ memPc' = "idle"
    /\ req' = NoReq
    /\ prevTx' = NoTx
    /\ curTx' = NoTx
    /\ nTx' = 0
    /\ allOk' = TRUE
    /\ memRet' = usbErrorOK
    /\ curIo' = NoIo
    /\ databuf' = <<>>
    /\ sink' = <<>>
    /\ UNCHANGED <<outer, inner>>
    /\ UNCHANGED <<maxMemPacket, has16, rw8_512, rwStatus2, handleVars, cmdVars, apVars>>
    /\ UNCHANGED extVars

----------------------------------------------------------------------------
(* Access-port registry: usbOpenAccessPort, usbInitAccessPort, and the    *)
(* open and close of the probe handle                                      *)

APs == 0..debugAccessPortSelectionMaximum

\* values of the uint16 parameter apsel the operations are driven with
ApSels == {0, 1, debugAccessPortSelectionMaximum, debugAccessPortSelectionMaximum + 1}

\* first response bytes the probe answers INIT_AP with
ProbeAnswers == {debugErrorOk, jTagWriteVerifyError, swdAccessPortWait, debugErrorFault,
                 swimErrorOk, swimErrorBusy}

\* the results of a checked INIT_AP transfer: a transport error, or the decoded
\* first response byte
TransferResults(mode, api) ==
    {usbTransferErrCheck(ioFail, mode, api, b) : ioFail \in BOOLEAN, b \in ProbeAnswers}

\* what useParseVersion can leave in the handle: (jtagApi, flagHasApInit)
VersionProfiles ==
    {<<jTagApiV1, FALSE>>, <<jTagApiV2, FALSE>>, <<jTagApiV2, TRUE>>, <<jTagApiV3, TRUE>>}

\* part_016:13-15: bitmap.New(debugAccessPortSelectionMaximum + 1)
NewBitmap == [k \in APs |-> FALSE]

\* bitmap Set
BitmapSet(bits, k, v) == [bits EXCEPT ![k] = v]

AlreadyOpened_Never(bits, apsel) == FALSE

\* part_016:28
AlreadyOpened(bits, apsel) == bits[apsel]

\* part_016:43-63: returns whether INIT_AP was transferred and whether it returned nil
usbInitAccessPort(flag, err) ==
    IF ~flag THEN [sent |-> FALSE, ok |-> FALSE]
    ELSE [sent |-> TRUE, ok |-> err.nil]

\* part_016:17-41: the registry, the result and whether INIT_AP was transferred;
\* err is the result of the checked transfer, were it made
usbOpenAccessPort(bits, flag, apsel, err) ==
    IF ~flag THEN [bits |-> bits, ok |-> TRUE, sent |-> FALSE, init |-> FALSE]
    ELSE IF apsel > debugAccessPortSelectionMaximum
    THEN [bits |-> bits, ok |-> FALSE, sent |-> FALSE, init |-> FALSE]
    ELSE IF AlreadyOpened(bits, apsel)
    THEN [bits |-> bits, ok |-> TRUE, sent |-> FALSE, init |-> FALSE]
    ELSE LET r == usbInitAccessPort(flag, err)
         IN IF ~r.ok
            THEN [bits |-> bits, ok |-> FALSE, sent |-> r.sent, init |-> FALSE]
            ELSE [bits |-> BitmapSet(bits, apsel % 256, TRUE), ok |-> TRUE,
                  sent |-> r.sent, init |-> TRUE]

RegistryAfterNewStLink_Rebuilt(bits) == NewBitmap

\* part_004:102-262: NewStLink does not touch the registry
RegistryAfterNewStLink(bits) == bits

RegistryAfterClose_Cleared(bits) == NewBitmap

\* part_004:264-272: Close releases the USB objects and does not touch the registry
RegistryAfterClose(bits) == bits

\* usb.go:15-17: the process-wide context pointer is nil, a context made by
\* gousb.NewContext ("live"), or a context on which Close has been called ("closed")

\* usb.go:19-34: InitUsb makes a context only when the pointer is nil
ContextAfterInitUsb(ctx) == IF ctx = "nil" THEN "live" ELSE ctx

\* usb.go:36-42: CloseUSB closes the context and leaves the pointer as it is
ContextAfterCloseUSB(ctx) == IF ctx /= "nil" THEN "closed" ELSE ctx

\* usb.go:44-65: usbFindDevices.  OpenDevices is called through the context pointer
\* without a test: through the nil pointer that is a run-time panic.  found: the
\* scan of a live context yields a matching device; a closed context yields none
usbFindDevices(ctx, found) ==
    IF ctx = "nil" THEN "panic"
    ELSE IF ctx = "live" /\ found THEN "devices"
    ELSE "none"

CloseReleases_DeviceFirst == <<"device", "configuration", "interface">>

\* part_004:268-270: the Close calls of Close, in program order
CloseReleases == <<"interface", "configuration", "device">>

\* op: the operation, k: its access port, ok: it returned without error, sent: it
\* made a USB transfer, prior: an earlier open of the port had succeeded, released:
\* the USB objects it released, closedBefore: Close had been called on the handle,
\* ctx: the context pointer it found, panic: it ended in a run-time panic
NoApOp == [op |-> "none", k |-> 0, ok |-> FALSE, sent |-> FALSE, prior |-> FALSE,
           released |-> <<>>, closedBefore |-> FALSE, ctx |-> "nil", panic |-> FALSE,
           acquired |-> <<>>]

\* the steps of NewStLink before the access-port init that can fail once
\* usbFindDevices has returned opened devices: the choice of the device
\* (part_004:132-155), Config (159-163), Interface (165-169), and the version
\* parse, mode check and mode init (195-223); "none": none of them fails
OpenSteps == {"none", "select", "config", "interface", "later"}

\* part_004:114-169: the USB objects NewStLink holds when the step fails ("none":
\* when it gets to the access-port init)
Acquired(step) ==
    CASE step \in {"select", "config"} -> <<"device">>
      [] step = "interface" -> <<"device", "configuration">>
      [] OTHER -> <<"device", "configuration", "interface">>

\* part_004:126-243: every error path of NewStLink is a plain return
OpenFailureReleases(acquired) == <<>>

ApInitVars ==
    /\ openedAp = NewBitmap
    /\ libUsbCtx = "nil"
    /\ hState = "none"
    /\ hasApInit = FALSE
    /\ initApDone = {}
    /\ openApOk = {}
    /\ apLast = NoApOp

\* part_004:102-262: NewStLink.  early: the step before the access-port init that
\* fails
NewStLink ==
    /\ hState \in {"none", "closed"}
    /\ openedAp' = RegistryAfterNewStLink(openedAp)
    /\ \E found \in BOOLEAN :
        LET scan == usbFindDevices(libUsbCtx, found)
            last == [NoApOp EXCEPT !.op = "open", !.ctx = libUsbCtx]
        IN IF scan = "panic"
           THEN /\ apLast' = [last EXCEPT !.panic = TRUE]
                /\ hState' = "crashed"
                /\ UNCHANGED <<hasApInit, initApDone, stMode, jtagApi, maxMemPacket>>
           ELSE \E early \in OpenSteps :
                IF scan = "none" \/ early /= "none"
                THEN /\ apLast' = IF scan = "none" THEN last
                                  ELSE [last EXCEPT
                                          !.acquired = Acquired(early),
                                          !.released = OpenFailureReleases(Acquired(early))]
                     /\ UNCHANGED <<hState, hasApInit, initApDone, stMode, jtagApi,
                                    maxMemPacket>>
                ELSE \E prof \in VersionProfiles, mode \in Modes :
                     /\ ~(mode = StLinkModeDebugSwd /\ prof[1] = jTagApiV1)
                     /\ \E err \in TransferResults(mode, prof[1]) :
                         LET api == prof[1]
                             flag == prof[2]
                             r == usbInitAccessPort(flag, err)
                         IN /\ apLast' = [last EXCEPT
                                            !.ok = r.ok, !.sent = r.sent,
                                            !.acquired = Acquired("none"),
                                            !.released =
                                                IF r.ok THEN <<>>
                                                ELSE OpenFailureReleases(Acquired("none"))]
                            /\ initApDone' = IF r.ok THEN initApDone \cup {0}
                                              ELSE initApDone
                            /\ IF r.ok
                               THEN /\ hState' = "open"
                                    /\ hasApInit' = flag
                                    /\ stMode' = mode
                                    /\ jtagApi' = api
                                    /\ \E m3 \in BOOLEAN :
                                         maxMemPacket' = IF m3 THEN 4096 ELSE 1024
                               ELSE UNCHANGED <<hState, hasApInit, stMode, jtagApi,
                                                maxMemPacket>>
    /\ UNCHANGED <<libUsbCtx, openApOk, cmdVars>>
    /\ UNCHANGED <<memPc, has16, rw8_512, req, outer, inner, prevTx, curTx, nTx, allOk, memRet,
                 rwStatus2, curIo, databuf, sink>>
    /\ UNCHANGED extVars

\* part_004:264-272: Close
\* The handle holds its device from NewStLink on, before and after a Close.
Close ==
    /\ hState \in {"open", "closed"}
    /\ hState' = "closed"
    /\ openedAp' = RegistryAfterClose(openedAp)
    /\ apLast' = [NoApOp EXCEPT !.op = "close", !.ok = TRUE, !.released = CloseReleases,
                                !.closedBefore = (hState = "closed"), !.ctx = libUsbCtx]
    /\ UNCHANGED <<libUsbCtx, hasApInit, initApDone, openApOk, handleVars, cmdVars, memVars>>
    /\ UNCHANGED extVars

\* part_016:17-41: a call of usbOpenAccessPort(apsel) on the handle
OpenAccessPort ==
    /\ hState \in {"open", "closed"}
    /\ \E apsel \in ApSels, err \in TransferResults(stMode, jtagApi) :
        LET r == usbOpenAccessPort(openedAp, hasApInit, apsel, err)
        IN /\ openedAp' = r.bits
           /\ initApDone' = IF r.init THEN initApDone \cup {apsel % 256} ELSE initApDone
           /\ openApOk' = IF r.ok /\ hasApInit THEN openApOk \cup {apsel} ELSE openApOk
           /\ apLast' = [NoApOp EXCEPT !.op = "open_ap", !.k = apsel, !.ok = r.ok,
                                       !.sent = r.sent, !.prior = apsel \in openApOk,
                                       !.closedBefore = (hState = "closed"),
                                       !.ctx = libUsbCtx]
    /\ UNCHANGED <<libUsbCtx, hState, hasApInit, handleVars, cmdVars, memVars>>
    /\ UNCHANGED extVars

\* usb.go:19-34: InitUsb
InitUsb ==
    /\ hState /= "crashed"
    /\ libUsbCtx' = ContextAfterInitUsb(libUsbCtx)
    /\ apLast' = [NoApOp EXCEPT !.op = "init_usb", !.ok = TRUE, !.ctx = libUsbCtx]
    /\ UNCHANGED <<openedAp, hState, hasApInit, initApDone, openApOk>>
    /\ UNCHANGED <<handleVars, cmdVars, memVars, extVars>>

\* usb.go:36-42: CloseUSB
CloseUSB ==
    /\ hState /= "crashed"
    /\ libUsbCtx' = ContextAfterCloseUSB(libUsbCtx)
    /\ apLast' = [NoApOp EXCEPT !.op = "close_usb", !.ok = TRUE, !.ctx = libUsbCtx]
    /\ UNCHANGED <<openedAp, hState, hasApInit, initApDone, openApOk>>
    /\ UNCHANGED <<handleVars, cmdVars, memVars, extVars>>

----------------------------------------------------------------------------
(* Version and capability probe: useParseVersion *)

\* the six-bit counters the version word is driven with
MaxCounter == 63

\* product ids of the probes the parse is driven with
VerPids == {stLinkV2Pid, stLinkV21Pid, stLinkV21NoMsdPid, stLinkV3EPid}

\* values of the major version field
VerMajors == 0..3

\* values of the second six-bit field
VerLows == {0, 6, 7, 12, 13, 37}

\* answers to the STLINK-V3 extended version command: (v, swim, jtag, msd, bridge)
VerExts ==
    {[v |-> ev, swim |-> es, jtag |-> ej, msd |-> 0, bridge |-> 0] :
        ev \in {2, 3}, es \in {0, 1}, ej \in {0, 1, 2, 5, 6}}

NoExt == [v |-> 0, swim |-> 0, jtag |-> 0, msd |-> 0, bridge |-> 0]

NoVerIn == [word |-> 0, pid |-> 0, ext |-> NoExt, extUsed |-> FALSE]

NoVersion == [stlink |-> 0, jtag |-> 0, swim |-> 0]

\* buffer.go:18-21
littleEndian == 0
bigEndian == 1

\* buffer.go:67-79: convertToUint16 of a byte sequence; a sequence of fewer than two
\* bytes gives math.MaxUint16
convertToUint16(buf, e) ==
    IF Len(buf) > 1
    THEN IF e = littleEndian
         THEN buf[1] + buf[2] * 256
         ELSE buf[2] + buf[1] * 256
    ELSE 65535

VersionFields_CountersSwapped(word) ==
    [v |-> (word \div 4096) % 16, x |-> word % 64, y |-> (word \div 64) % 64]

\* version.go:27-31: the three fields of the big-endian version word
VersionFields(word) ==
    [v |-> (word \div 4096) % 16, x |-> (word \div 64) % 64, y |-> word % 64]

\* version.go:36-52: what the two counters mean, by product id
CountersByPid(pid, x, y) ==
    IF pid \in {stLinkV21Pid, stLinkV21NoMsdPid}
    THEN IF (x <= 22 /\ y = 7) \/ (x >= 25 /\ y >= 7 /\ y <= 12)
         THEN [jtag |-> 0, msd |-> x, swim |-> y]
         ELSE [jtag |-> x, msd |-> y, swim |-> 0]
    ELSE [jtag |-> x, msd |-> 0, swim |-> y]

\* version.go:55: STLINK-V3 requires the extended version command
NeedsVersionEx(f) == f.v = 3 /\ f.x = 0 /\ f.y = 0

\* version.go:81-91, 140-142, 160-161: the API generation; prev is the value the
\* handle holds before the parse
ApiOfVersion(stlink, jtag, prev) ==
    CASE stlink = 1 -> IF jtag >= 11 THEN jTagApiV2 ELSE jTagApiV1
      [] stlink = 2 -> jTagApiV2
      [] stlink = 3 -> jTagApiV3
      [] OTHER -> prev

V2Flags_QuirkNeverFixed(jtag) ==
    {f \in {flagHasTrace} : jtag >= 13}
    \cup {f \in {flagHasGetLastRwStatus2} : jtag >= 15}
    \cup {f \in {flagHasSwdSetFreq} : jtag >= 22}
    \cup {f \in {flagHasJtagSetFreq, flagHasDapReg} : jtag >= 24}
    \cup {f \in {flagQuirkJtagDpRead} : jtag >= 24}
    \cup {f \in {flagHasMem16Bit} : jtag >= 26}
    \cup {f \in {flagHasApInit} : jtag >= 28}
    \cup {f \in {flagFixCloseAp} : jtag >= 29}
    \cup {f \in {flagHasDpBankSel} : jtag >= 32}

\* version.go:93-139: the capability bits of an ST-LINK/V2
V2Flags(jtag) ==
    {f \in {flagHasTrace} : jtag >= 13}
    \cup {f \in {flagHasGetLastRwStatus2} : jtag >= 15}
    \cup {f \in {flagHasSwdSetFreq} : jtag >= 22}
    \cup {f \in {flagHasJtagSetFreq, flagHasDapReg} : jtag >= 24}
    \cup {f \in {flagQuirkJtagDpRead} : jtag >= 24 /\ jtag < 32}
    \cup {f \in {flagHasMem16Bit} : jtag >= 26}
    \cup {f \in {flagHasApInit} : jtag >= 28}
    \cup {f \in {flagFixCloseAp} : jtag >= 29}
    \cup {f \in {flagHasDpBankSel} : jtag >= 32}

\* version.go:144-158: the capability bits of an STLINK-V3
V3Flags(jtag) ==
    {flagHasTrace, flagHasGetLastRwStatus2, flagHasDapReg, flagHasMem16Bit, flagHasApInit,
     flagFixCloseAp}
    \cup {f \in {flagHasDpBankSel} : jtag >= 2}
    \cup {f \in {flagHasRw8Bytes512} : jtag >= 6}

\* version.go:79-164: bitmap.New(32) and the bits set by the switch
FlagsOfVersion(stlink, jtag) ==
    CASE stlink = 2 -> V2Flags(jtag)
      [] stlink = 3 -> V3Flags(jtag)
      [] OTHER -> {}

VerInitVars ==
    /\ verPc = "idle"
    /\ verIn = NoVerIn
    /\ version = NoVersion
    /\ verFlags = {}
    /\ verOk = FALSE

\* version.go:23-25, 62-64: a transfer failed, the handle is left as it was
ParseVersionFails ==
    /\ verOk' = FALSE
    /\ verIn' = NoVerIn
    /\ UNCHANGED <<version, verFlags, jtagApi>>

\* version.go:75-164: the parsed counters are stored and the switch is run
ParseVersionStores(word, pid, useExt, ext, stlink, jtag, swim) ==
    /\ verOk' = TRUE
    /\ verIn' = [word |-> word, pid |-> pid, ext |-> ext, extUsed |-> useExt]
    /\ version' = [stlink |-> stlink, jtag |-> jtag, swim |-> swim]
    /\ jtagApi' = ApiOfVersion(stlink, jtag, jtagApi)
    /\ verFlags' = FlagsOfVersion(stlink, jtag)

\* version.go:14-185: one call of useParseVersion on a new handle.  io1, io2: the
\* transfer of the version command, of the extended version command, fails
ParseVersion ==
    /\ verPc = "idle"
    /\ verPc' = "done"
    /\ \E v \in VerMajors, x \in 0..MaxCounter, y \in VerLows, pid \in VerPids, io1 \in BOOLEAN :
        LET word == v * 4096 + x * 64 + y
            f == VersionFields(word)
            c == CountersByPid(pid, f.x, f.y)
        IN IF io1
           THEN ParseVersionFails
           ELSE IF NeedsVersionEx(f)
           THEN \E ext \in VerExts, io2 \in BOOLEAN :
                    IF io2
                    THEN ParseVersionFails
                    ELSE ParseVersionStores(word, pid, TRUE, ext, ext.v, ext.jtag, ext.swim)
           ELSE ParseVersionStores(word, pid, FALSE, NoExt, f.v, c.jtag, c.swim)
    /\ UNCHANGED <<stMode, cmdVars, memVars, apVars, rttVars, tailVars>>

ModeSupported_NoApiTest(mode, api, jtag, swim) ==
    CASE mode = StLinkModeDebugSwd -> TRUE
      [] mode = StLinkModeDebugJtag -> jtag /= 0
      [] mode = StLinkModeDebugSwim -> swim /= 0
      [] OTHER -> FALSE

\* part_004:201-217: the transport mode against the parsed version
ModeSupported(mode, api, jtag, swim) ==
    CASE mode = StLinkModeDebugSwd -> api /= jTagApiV1
      [] mode = StLinkModeDebugJtag -> jtag /= 0
      [] mode = StLinkModeDebugSwim -> swim /= 0
      [] OTHER -> FALSE

\* part_004:195-261: the rest of NewStLink after a successful version parse: the
\* mode check, then the mode and access-port initialisation (later: one of them
\* fails).  "opened": NewStLink returns the handle
OpenAfterParse ==
    /\ verPc = "done"
    /\ verOk
    /\ \E later \in BOOLEAN :
        verPc' = IF ModeSupported(stMode, jtagApi, version.jtag, version.swim) /\ ~later
                 THEN "opened" ELSE "rejected"
    /\ UNCHANGED <<verIn, version, verFlags, verOk, handleVars>>
    /\ UNCHANGED <<cmdVars, memVars, apVars, rttVars, tailVars>>

\* the caller takes the result; the next parse runs on a new handle
ParseVersionReturn ==
    /\ verPc \in {"done", "opened", "rejected"}
    /\ verPc' = "idle"
    /\ verIn' = NoVerIn
    /\ version' = NoVersion
    /\ verFlags' = {}
    /\ verOk' = FALSE
    /\ jtagApi' = 0
    /\ UNCHANGED <<stMode, cmdVars, memVars, apVars, rttVars, tailVars>>

----------------------------------------------------------------------------
(* RTT engine: InitializeRtt, UpdateRttChannels, ReadRttChannels *)

\* size of every configured channel buffer in the target
RingSize == 16

\* offset from the RAM start of the first channel buffer; the buffers of the
\* configured channels follow one another in channel order
RingBase == 1024

\* the channels (1-based) the target has configured; the other descriptors of its
\* control block are zero
LiveChannels == {1, 2}

\* (read offset, write offset) pairs the target leaves in the descriptor of channel
\* i: for the first channel every pair of 3, 14 and the out-of-range value
\* RingSize; for the others empty, filled, emptied again, and filled across the wrap
TargetOffsets(i) ==
    IF i = 1
    THEN {3, 14, RingSize} \X {3, 14, RingSize}
    ELSE {<<0, 0>>, <<0, 3>>, <<3, 3>>, <<14, 3>>}

NilChannel == [nil |-> TRUE, buffer |-> 0, sizeOfBuffer |-> 0, wrOff |-> 0, rdOff |-> 0]

\* the descriptor of channel i (1-based) as it stands in target RAM
TargetDescriptor(tg, i) ==
    IF i \in LiveChannels
    THEN [nil |-> FALSE, buffer |-> DefaultRamStart + RingBase + (i - 1) * RingSize,
          sizeOfBuffer |-> RingSize, wrOff |-> tg[i].wr, rdOff |-> tg[i].rd]
    ELSE [nil |-> FALSE, buffer |-> 0, sizeOfBuffer |-> 0, wrOff |-> 0, rdOff |-> 0]

\* contents of a scanned RAM range: where "SEGGER RTT" occurs, and the two counters
\* that follow the first occurrence
RttRangeSet ==
    {[start |-> DefaultRamStart, size |-> 1024, sent |-> o, up |-> c[1], down |-> c[2],
      readOk |-> TRUE] :
        o \in {{256}, {256, 512}},
        c \in {<<3, 3>>, <<2, 1>>, <<1, 1>>, <<0, 3>>}}
    \cup {[start |-> DefaultRamStart, size |-> 1024, sent |-> {}, up |-> 0, down |-> 0,
           readOk |-> ok] : ok \in BOOLEAN}

\* a range without the marker, scanned before the one of interest
RttMissRange ==
    [start |-> DefaultRamStart + 65536, size |-> 1024, sent |-> {}, up |-> 0, down |-> 0,
     readOk |-> TRUE]

\* the arguments of InitializeRtt
RttSearchRanges ==
    {<<r>> : r \in RttRangeSet} \cup {<<RttMissRange, r>> : r \in RttRangeSet}

\* bytes.Index: the first occurrence, -1 if there is none
BytesIndex(sent) ==
    IF sent = {} THEN -1 ELSE CHOOSE o \in sent : \A q \in sent : o <= q

NoRtt == [ramStart |-> 0, offset |-> 0, maxNumUpBuffers |-> 0, maxNumDownBuffers |-> 0]

SlotCount_UpOnly(up, down) == up

\* part_002:96-97: make([]*seggerRttChannel, maxNumUpBuffers + maxNumDownBuffers)
SlotCount(up, down) == up + down

RECURSIVE ScanRanges(_, _, _)
\* part_002:66-107: the loop over the search ranges; rtt and chs are the engine
\* state and the snapshot vector so far
ScanRanges(ranges, rtt, chs) ==
    IF ranges = <<>>
    THEN [rtt |-> rtt, chs |-> chs, res |-> "error"]
    ELSE LET r == Head(ranges)
             rtt1 == [rtt EXCEPT !.ramStart = r.start]
             occ == BytesIndex(r.sent)
             rtt2 == [rtt1 EXCEPT !.offset = occ, !.maxNumUpBuffers = r.up,
                                  !.maxNumDownBuffers = r.down]
         IN IF ~r.readOk
            THEN [rtt |-> rtt1, chs |-> chs, res |-> "error"]
            ELSE IF occ /= -1
            THEN IF r.down = 0 \/ r.up = 0
                 THEN [rtt |-> rtt2, chs |-> chs, res |-> "error"]
                 ELSE [rtt |-> rtt2,
                       chs |-> [i \in 1..SlotCount(r.up, r.down) |-> NilChannel],
                       res |-> "ok"]
            ELSE ScanRanges(Tail(ranges), rtt1, chs)

\* part_002:111-165: UpdateRttChannels; readOk: the ReadMem of the descriptors
\* succeeds.  Storing into a slot the vector does not have is a run-time panic.
UpdateChannels(rtt, chs, tg, readOk) ==
    LET bufferAmount == rtt.maxNumUpBuffers + rtt.maxNumDownBuffers
        filled == [i \in 1..Len(chs) |->
                      IF i <= bufferAmount THEN TargetDescriptor(tg, i) ELSE chs[i]]
    IN IF ~readOk THEN [chs |-> chs, res |-> "error"]
       ELSE IF bufferAmount > Len(chs) THEN [chs |-> filled, res |-> "panic"]
       ELSE [chs |-> filled, res |-> "ok"]

\* part_002:180, 219
HasData(c) == c.sizeOfBuffer > 0 /\ c.rdOff /= c.wrOff

\* part_002:178-186: the (start, size) blocks of the channels with data
RttBlocks(rtt, chs) ==
    {<<chs[i].buffer - rtt.ramStart, chs[i].sizeOfBuffer>> :
        i \in {j \in 1..Len(chs) : HasData(chs[j])}}

\* part_002:194-202: the order of the sort
BlockLess(a, b) == a[1] < b[1] \/ (a[1] = b[1] /\ a[2] < b[2])

\* part_002:204-205: the window read from target RAM, [start, start + size)
RttWindow(blocks) ==
    LET first == CHOOSE a \in blocks : \A b \in blocks : a = b \/ BlockLess(a, b)
        last == CHOOSE a \in blocks : \A b \in blocks : a = b \/ BlockLess(b, a)
    IN [start |-> first[1], size |-> last[1] + last[2] - first[1]]

RECURSIVE SumSizes(_, _)
\* part_002:236-242: the sizes of the channels before channel n (n channels)
SumSizes(chs, n) == IF n = 0 THEN 0 ELSE chs[n].sizeOfBuffer + SumSizes(chs, n - 1)

BufferOffset_InWindow(rtt, chs, channelIdx, win) ==
    (chs[channelIdx + 1].buffer - rtt.ramStart) - win.start

\* part_002:235-242: bufferOffset, the index in the window of the channel's ring
BufferOffset(rtt, chs, channelIdx, win) == SumSizes(chs, channelIdx)

RECURSIVE CopyRing(_, _, _, _, _, _, _)
\* part_002:244-252: the copy loop.  Reading past the window is a run-time panic;
\* a loop that has made more passes than two rings hold never ends
CopyRing(rd, wr, size, off, winLen, acc, steps) ==
    IF rd = wr THEN [res |-> "ok", idx |-> acc, rd |-> rd]
    ELSE IF off + rd >= winLen THEN [res |-> "panic", idx |-> acc, rd |-> rd]
    ELSE IF steps > 2 * size + 2 THEN [res |-> "hang", idx |-> acc, rd |-> rd]
    ELSE CopyRing(IF rd + 1 > size - 1 THEN 0 ELSE rd + 1, wr, size, off, winLen,
                  Append(acc, off + rd), steps + 1)

Memory32BitBlock == 4

AddressRdOff_OfDescriptor(rtt, channelIdx) ==
    rtt.ramStart + rtt.offset + seggerRttControlBlockSize + channelIdx * seggerRttBufferSize

\* part_002:255: the address of the read-offset field of channel channelIdx
AddressRdOff(rtt, channelIdx) ==
    rtt.ramStart + rtt.offset + seggerRttControlBlockSize + channelIdx * seggerRttBufferSize + 16

NoDrain == [res |-> "ok", delivered |-> <<>>, writes |-> <<>>]

RECURSIVE DrainChannels(_, _, _, _, _, _)
\* part_002:214-225 with readDataFromRttChannelBuffer (230-268): the up channels
\* from index i on.  delivered: (channel, addresses of the bytes handed to the
\* callback); writes: the WriteMem calls (address, value, succeeded)
DrainChannels(rtt, chs, win, i, wrOk, acc) ==
    IF i >= Len(chs) \/ i >= rtt.maxNumUpBuffers THEN acc
    ELSE IF ~HasData(chs[i + 1]) THEN DrainChannels(rtt, chs, win, i + 1, wrOk, acc)
    ELSE LET c == chs[i + 1]
             cp == CopyRing(c.rdOff, c.wrOff, c.sizeOfBuffer,
                            BufferOffset(rtt, chs, i, win), win.size, <<>>, 0)
             bytes == [k \in 1..Len(cp.idx) |-> rtt.ramStart + win.start + cp.idx[k]]
             wr == IF Len(cp.idx) > 0
                   THEN <<[ch |-> i, addr |-> AddressRdOff(rtt, i), value |-> cp.rd,
                           width |-> Memory32BitBlock, count |-> 1, ok |-> wrOk]>>
                   ELSE <<>>
         IN IF cp.res /= "ok"
            THEN [acc EXCEPT !.res = cp.res]
            ELSE DrainChannels(rtt, chs, win, i + 1, wrOk,
                               [acc EXCEPT !.delivered = Append(@, [ch |-> i, bytes |-> bytes]),
                                           !.writes = @ \o wr])

\* part_002:167-228: ReadRttChannels; readOk: the ReadMem of the window succeeds,
\* wrOk: the WriteMem calls of the read offsets succeed
ReadChannels(rtt, chs, readOk, wrOk) ==
    IF rtt.maxNumUpBuffers = 0 THEN [NoDrain EXCEPT !.res = "error"]
    ELSE IF \E i \in 1..Len(chs) : chs[i].nil THEN [NoDrain EXCEPT !.res = "panic"]
    ELSE IF RttBlocks(rtt, chs) = {} THEN NoDrain
    ELSE IF ~readOk THEN [NoDrain EXCEPT !.res = "error"]
    ELSE DrainChannels(rtt, chs, RttWindow(RttBlocks(rtt, chs)), 0, wrOk, NoDrain)

RECURSIVE ApplyWrites(_, _)
\* the target RAM after the WriteMem calls that succeeded
ApplyWrites(tg, writes) ==
    IF writes = <<>> THEN tg
    ELSE LET w == Head(writes)
             tg1 == IF w.ok /\ w.ch + 1 \in LiveChannels
                    THEN [tg EXCEPT ![w.ch + 1].rd = w.value] ELSE tg
         IN ApplyWrites(tg1, Tail(writes))

\* a snapshot vector holds a descriptor whose offsets are not inside its buffer
BadSnapshot(chs) ==
    \E i \in 1..Len(chs) :
        /\ ~chs[i].nil
        /\ chs[i].sizeOfBuffer > 0
        /\ (chs[i].rdOff >= chs[i].sizeOfBuffer \/ chs[i].wrOff >= chs[i].sizeOfBuffer)

NoRttOp == [op |-> "none", res |-> "ok", delivered |-> <<>>, writes |-> <<>>,
            afterDrain |-> FALSE, bad |-> FALSE, ranges |-> <<>>, changed |-> FALSE]

RttInitVars ==
    /\ rttPc = "idle"
    /\ seggerRtt = NoRtt
    /\ rttChannels = <<>>
    /\ target \in [LiveChannels -> [rd : {0}, wr : {0}]]
    /\ rttQuiet = FALSE
    /\ rttLast = NoRttOp

\* where an operation that ended with res leaves the program
RttPcAfter(res) ==
    CASE res = "panic" -> "crashed"
      [] res = "hang" -> "hung"
      [] OTHER -> "done"

\* part_002:64-109: InitializeRtt
InitializeRtt ==
    /\ rttPc = "idle"
    /\ \E ranges \in RttSearchRanges :
        LET r == ScanRanges(ranges, seggerRtt, rttChannels)
        IN /\ seggerRtt' = r.rtt
           /\ rttChannels' = r.chs
           /\ rttLast' = [NoRttOp EXCEPT !.op = "init", !.res = r.res, !.ranges = ranges,
                                         !.changed = (r.rtt /= seggerRtt
                                                      \/ r.chs /= rttChannels)]
    /\ rttPc' = "done"
    /\ rttQuiet' = FALSE
    /\ UNCHANGED <<target, handleVars, cmdVars, memVars, apVars, verVars, tailVars>>

\* part_002:111-165: UpdateRttChannels
UpdateRttChannels ==
    /\ rttPc = "idle"
    /\ \E readOk \in BOOLEAN :
        LET r == UpdateChannels(seggerRtt, rttChannels, target, readOk)
        IN /\ rttChannels' = r.chs
           /\ rttLast' = [NoRttOp EXCEPT !.op = "update", !.res = r.res,
                                         !.changed = (r.chs /= rttChannels)]
           /\ rttPc' = RttPcAfter(r.res)
    /\ rttQuiet' = FALSE
    /\ UNCHANGED <<seggerRtt, target, handleVars, cmdVars, memVars, apVars, verVars, tailVars>>

\* part_002:167-228: ReadRttChannels, a drain pass
ReadRttChannels ==
    /\ rttPc = "idle"
    /\ \E readOk \in BOOLEAN, wrOk \in BOOLEAN :
        LET r == ReadChannels(seggerRtt, rttChannels, readOk, wrOk)
        IN /\ target' = ApplyWrites(target, r.writes)
           /\ rttLast' = [NoRttOp EXCEPT !.op = "read", !.res = r.res,
                                         !.delivered = r.delivered, !.writes = r.writes,
                                         !.afterDrain = rttQuiet,
                                         !.bad = BadSnapshot(rttChannels)]
           /\ rttPc' = RttPcAfter(r.res)
           /\ rttQuiet' = (r.res = "ok" /\ \A k \in 1..Len(r.writes) : r.writes[k].ok)
    /\ UNCHANGED <<seggerRtt, rttChannels, handleVars, cmdVars, memVars, apVars, verVars, tailVars>>

\* the caller takes the result of the operation
RttReturn ==
    /\ rttPc = "done"
    /\ rttPc' = "idle"
    /\ rttLast' = NoRttOp
    /\ UNCHANGED <<seggerRtt, rttChannels, target, rttQuiet>>
    /\ UNCHANGED <<handleVars, cmdVars, memVars, apVars, verVars, tailVars>>

\* the target firmware (or a fault in the target) rewrites the offsets of a channel
TargetWrites ==
    /\ rttPc = "idle"
    /\ \E i \in LiveChannels : \E o \in TargetOffsets(i) :
        /\ target[i] /= [rd |-> o[1], wr |-> o[2]]
        /\ target' = [target EXCEPT ![i] = [rd |-> o[1], wr |-> o[2]]]
    /\ rttQuiet' = FALSE
    /\ UNCHANGED <<rttPc, seggerRtt, rttChannels, rttLast>>
    /\ UNCHANGED <<handleVars, cmdVars, memVars, apVars, verVars, tailVars>>

----------------------------------------------------------------------------
(* Clock speed tables: matchSpeedMap *)

\* speed.go:24-37: the speed column of swdKHzToSpeedMap
swdKHzToSpeedMap == <<4000, 1800, 1200, 950, 480, 240, 125, 100, 50, 25, 15, 5>>

\* speed.go:40-48: the speed column of jTAGkHzToSpeedMap
jTAGkHzToSpeedMap == <<9000, 4500, 2250, 1125, 562, 281, 140>>

\* number of entries of a table reported by an STLINK-V3
MaxFreqNb == 3

\* speed.go:139-147: the tables usbGetComFreq builds from the answer of the probe,
\* in the order of the answer; unused entries are 0
ComFreqTables == [1..MaxFreqNb -> {0, 100, 200, 400}]

SpeedTables == {swdKHzToSpeedMap, jTAGkHzToSpeedMap} \cup ComFreqTables

\* requested speeds
SpeedRequests == {0, 4, 5, 50, 100, 139, 150, 200, 300, 400, 1000, 1800, 4000, 9000, 10000}

\* speed.go:180: speedDiff starts at math.MaxUint32, above every difference of a
\* request and a table speed
NoSpeedDiff == -1

\* speed.go:203: currentDiff < speedDiff
DiffBelow(d, speedDiff) == speedDiff = NoSpeedDiff \/ d < speedDiff

RECURSIVE SpeedLoop(_, _, _, _, _, _)
\* speed.go:184-208: the loop from index i (0-based) on; the difference of line
\* 196 is used only under kHz >= s.speed, where it does not wrap
SpeedLoop(smap, kHz, i, lastValidSpeed, speedIndex, speedDiff) ==
    IF i >= Len(smap)
    THEN [lastValidSpeed |-> lastValidSpeed, speedIndex |-> speedIndex, counter |-> i - 1]
    ELSE LET s == smap[i + 1]
         IN IF s = 0
            THEN SpeedLoop(smap, kHz, i + 1, lastValidSpeed, speedIndex, speedDiff)
            ELSE IF kHz = s
            THEN [lastValidSpeed |-> i, speedIndex |-> i, counter |-> i]
            ELSE IF kHz >= s /\ DiffBelow(kHz - s, speedDiff)
            THEN SpeedLoop(smap, kHz, i + 1, i, i, kHz - s)
            ELSE SpeedLoop(smap, kHz, i + 1, i, speedIndex, speedDiff)

\* speed.go:177-225: matchSpeedMap; index is 0-based.  When no entry was selected
\* the last non-zero entry is used (210-214).  Formatting the error
\* message with speedIndex -1 indexes the table out of range: a run-time panic
matchSpeedMap(smap, kHz, query) ==
    LET l == SpeedLoop(smap, kHz, 0, -1, -1, NoSpeedDiff)
        speedIndex == IF l.speedIndex = -1
                      THEN l.lastValidSpeed ELSE l.speedIndex
        match == ~(l.speedIndex = -1) /\ ~(l.counter = Len(smap))
    IN IF ~match /\ query
       THEN IF speedIndex = -1
            THEN [index |-> -1, err |-> FALSE, panic |-> TRUE]
            ELSE [index |-> -1, err |-> TRUE, panic |-> FALSE]
       ELSE [index |-> speedIndex, err |-> FALSE, panic |-> FALSE]

NoFnArgs == [fn |-> "none"]
NoFnRes == [index |-> -1, err |-> FALSE, panic |-> FALSE]

FnInitVars ==
    /\ fnPc = "idle"
    /\ fnArgs = NoFnArgs
    /\ fnRes = NoFnRes

\* speed.go:177-225: one call of matchSpeedMap
MatchSpeedMapCall ==
    /\ fnPc = "idle"
    /\ \E smap \in SpeedTables, kHz \in SpeedRequests, query \in BOOLEAN :
        /\ fnArgs' = [fn |-> "matchSpeedMap", smap |-> smap, kHz |-> kHz, query |-> query]
        /\ fnRes' = matchSpeedMap(smap, kHz, query)
    /\ fnPc' = "done"
    /\ UNCHANGED <<handleVars, cmdVars, memVars, apVars, verVars, rttVars>>

\* the caller takes the result
FnReturn ==
    /\ fnPc = "done"
    /\ fnPc' = "idle"
    /\ fnArgs' = NoFnArgs
    /\ fnRes' = NoFnRes
    /\ UNCHANGED <<handleVars, cmdVars, memVars, apVars, verVars, rttVars>>

----------------------------------------------------------------------------
(* Command framing: usbInitBuffer, usbTransferNoErrCheck, usbTransferReadWrite *)

\* part_005:12, 14, 423
STLINK_SG_SIZE == 31
STLINK_CMD_SIZE_V2 == 16
REQUEST_SENSE_LENGTH == 18

\* most command and parameter bytes a caller places after usbInitBuffer
MaxCmdBytes == 5

\* transfer.go:246-256, 340-367: cmdidx after usbInitBuffer; an ST-LINK/V1 command
\* starts with a 15-byte wrapper
usbInitBuffer(stlink) == IF stlink = 1 THEN 15 ELSE 0

\* h.cmdbuf, STLINK_SG_SIZE bytes: 1 where a byte has been placed, 0 elsewhere
CmdBuf(cmdidx) == [i \in 1..STLINK_SG_SIZE |-> IF i <= cmdidx THEN 1 ELSE 0]

CmdSize_Written(stlink, cmdidx) == cmdidx

\* transfer.go:259-264: the length of the command packet
CmdSize(stlink, cmdidx) == IF stlink = 1 THEN STLINK_SG_SIZE ELSE STLINK_CMD_SIZE_V2

\* transfer.go:301-338: usbTransferReadWrite; the writes to the TX endpoint (the
\* command packet, then the data of an outgoing transfer) and the result.
\* outOk, dataOk: the write of the command packet, the data phase, succeeds
usbTransferReadWrite(cmdidx, cmdSize, outgoing, size, outOk, dataOk) ==
    LET packet == SubSeq(CmdBuf(cmdidx), 1, cmdSize)
    IN IF ~outOk THEN [cmds |-> <<packet>>, data |-> <<>>, ok |-> FALSE]
       ELSE IF size = 0 THEN [cmds |-> <<packet>>, data |-> <<>>, ok |-> TRUE]
       ELSE [cmds |-> <<packet>>, data |-> IF outgoing THEN <<size>> ELSE <<>>,
             ok |-> dataOk]

\* transfer.go:369-402: usbTransferV1GetStatus returns nil only for 13 bytes read
\* with a CSW status of 0
usbTransferV1GetStatus(readOk, csw) == readOk /\ csw = 0

\* transfer.go:258-288: usbTransferNoErrCheck; for an ST-LINK/V1 the status is read
\* after the transfer, and the sense request is sent when the status read
\* returned nil with cmdbuf[12] = 1
usbTransferNoErrCheck(stlink, cmdidx, outgoing, size, outOk, dataOk, readOk, csw) ==
    LET rw == usbTransferReadWrite(cmdidx, CmdSize(stlink, cmdidx), outgoing, size,
                                   outOk, dataOk)
        sense == usbTransferReadWrite(usbInitBuffer(stlink) + 4, REQUEST_SENSE_LENGTH,
                                      FALSE, 16, TRUE, TRUE)
    IN IF ~rw.ok THEN rw
       ELSE IF stlink = 1 /\ usbTransferV1GetStatus(readOk, csw) /\ csw = 1
       THEN [cmds |-> rw.cmds \o sense.cmds, data |-> rw.data, ok |-> TRUE]
       ELSE rw

\* transfer.go:258-288: one call of usbTransferNoErrCheck on a handle whose
\* command buffer holds n bytes after those of usbInitBuffer
TransferNoErrCheckCall ==
    /\ fnPc = "idle"
    /\ \E stlink \in 1..3, n \in 0..MaxCmdBytes, outgoing \in BOOLEAN, size \in {0, 2},
          outOk \in BOOLEAN, dataOk \in BOOLEAN, readOk \in BOOLEAN, csw \in {0, 1} :
        LET cmdidx == usbInitBuffer(stlink) + n
        IN /\ fnArgs' = [fn |-> "usbTransferNoErrCheck", stlink |-> stlink,
                         cmdidx |-> cmdidx, outgoing |-> outgoing, size |-> size]
           /\ fnRes' = usbTransferNoErrCheck(stlink, cmdidx, outgoing, size, outOk, dataOk,
                                             readOk, csw)
    /\ fnPc' = "done"
    /\ UNCHANGED <<handleVars, cmdVars, memVars, apVars, verVars, rttVars>>

----------------------------------------------------------------------------
(* Specifications *)

\* a handle after construction: SWD is refused on API V1 (part_004:201-205)
HandleInit ==
    /\ stMode \in Modes
    /\ jtagApi \in Apis
    /\ ~(stMode = StLinkModeDebugSwd /\ jtagApi = jTagApiV1)

\* the API and the flags as useParseVersion sets them (16-bit access, 512-byte blocks,
\* status poll of 12 bytes): a V1 probe, V2 before J15, V2 from J26, V3 from J6
MemConfigs == {<<FALSE, FALSE, jTagApiV1, FALSE>>, <<FALSE, FALSE, jTagApiV2, FALSE>>,
               <<TRUE, FALSE, jTagApiV2, TRUE>>, <<TRUE, TRUE, jTagApiV3, TRUE>>}

\* the command engine on a constructed handle
InitCmd ==
    /\ RttInitVars
    /\ FnInitVars
    /\ VerInitVars
    /\ HandleInit
    /\ CmdInitVars
    /\ MemInitVars
    /\ maxMemPacket = 1024 /\ has16 = TRUE /\ rw8_512 = FALSE /\ rwStatus2 = TRUE
    /\ ApInitVars

NextCmd ==
    \/ CmdAllowRetryCall
    \/ CmdAllowRetryPass
    \/ TransferErrCheckCall
    \/ CmdReturn

SpecCmd == InitCmd /\ [][NextCmd]_vars

\* the memory read planner on a constructed handle
InitMem ==
    /\ RttInitVars
    /\ FnInitVars
    /\ VerInitVars
    /\ CmdInitVars
    /\ MemInitVars
    /\ maxMemPacket \in {1024, 4096}
    /\ \E c \in MemConfigs :
        /\ has16 = c[1] /\ rw8_512 = c[2] /\ jtagApi = c[3] /\ rwStatus2 = c[4]
        /\ stMode = IF c[3] = jTagApiV1 THEN StLinkModeDebugJtag ELSE StLinkModeDebugSwd
    /\ ApInitVars

NextMem ==
    \/ ReadMemCall
    \/ ReadMemHead
    \/ ReadMemWide
    \/ ReadMemRecurse
    \/ ReadMemInner
    \/ ReadMem8
    \/ ReadMemReturn

SpecMem == InitMem /\ [][NextMem]_vars

\* the access-port registry from process start
InitAp ==
    /\ RttInitVars
    /\ FnInitVars
    /\ VerInitVars
    /\ stMode = StLinkModeDebugSwd /\ jtagApi = jTagApiV2
    /\ CmdInitVars
    /\ MemInitVars
    /\ maxMemPacket = 1024 /\ has16 = TRUE /\ rw8_512 = FALSE /\ rwStatus2 = TRUE
    /\ ApInitVars

NextAp ==
    \/ InitUsb
    \/ CloseUSB
    \/ NewStLink
    \/ Close
    \/ OpenAccessPort

SpecAp == InitAp /\ [][NextAp]_vars

\* the version probe on new handles
InitVer ==
    /\ RttInitVars
    /\ FnInitVars
    /\ stMode \in Modes
    /\ jtagApi = 0
    /\ CmdInitVars
    /\ MemInitVars
    /\ maxMemPacket = 1024 /\ has16 = TRUE /\ rw8_512 = FALSE /\ rwStatus2 = TRUE
    /\ ApInitVars
    /\ VerInitVars

NextVer ==
    \/ ParseVersion
    \/ OpenAfterParse
    \/ ParseVersionReturn

SpecVer == InitVer /\ [][NextVer]_vars

\* the RTT engine against a target with two configured channels
InitRtt ==
    /\ stMode = StLinkModeDebugSwd /\ jtagApi = jTagApiV2
    /\ CmdInitVars
    /\ MemInitVars
    /\ maxMemPacket = 1024 /\ has16 = TRUE /\ rw8_512 = FALSE /\ rwStatus2 = TRUE
    /\ ApInitVars
    /\ VerInitVars
    /\ RttInitVars
    /\ FnInitVars

NextRtt ==
    \/ InitializeRtt
    \/ UpdateRttChannels
    \/ ReadRttChannels
    \/ RttReturn
    \/ TargetWrites

SpecRtt == InitRtt /\ [][NextRtt]_vars

\* calls of matchSpeedMap
InitSpeed ==
    /\ RttInitVars
    /\ FnInitVars
    /\ VerInitVars
    /\ HandleInit
    /\ CmdInitVars
    /\ MemInitVars
    /\ maxMemPacket = 1024 /\ has16 = TRUE /\ rw8_512 = FALSE /\ rwStatus2 = TRUE
    /\ ApInitVars

NextSpeed ==
    \/ MatchSpeedMapCall
    \/ FnReturn

SpecSpeed == InitSpeed /\ [][NextSpeed]_vars

\* calls of usbTransferNoErrCheck
NextXfer ==
    \/ TransferNoErrCheckCall
    \/ FnReturn

SpecXfer == InitSpeed /\ [][NextXfer]_vars

----------------------------------------------------------------------------
(* Mode initialisation: usbInitMode, usbAssertSrst *)

StLinkModeUnknown == 0

\* the probes usbInitMode runs on: major version and the mode NewStLink accepted
\* (a V1 probe has API V1, which NewStLink accepts in JTAG and SWIM mode only)
InitModeProbes ==
    {pm \in (1..3) \X Modes : ~(pm[1] = 1 /\ pm[2] = StLinkModeDebugSwd)}

\* what the probe does with each command of one usbInitMode call: TRUE when the
\* command succeeds; leave: the device mode read first is one usbLeaveMode leaves
InitModeOutcomes ==
    [mode1 : BOOLEAN, leave : BOOLEAN, mode2 : BOOLEAN, srst1 : BOOLEAN, enter : BOOLEAN,
     srst2 : BOOLEAN, mode3 : BOOLEAN]

\* debugger.go:61-82: refused without a command on a V1 probe, else DRIVE_NRST
\* through usbCmdAllowRetry
usbAssertSrst(stlink, ok) ==
    IF stlink = 1 THEN [log |-> <<>>, err |-> TRUE]
    ELSE [log |-> <<"drive_nrst">>, err |-> ~ok]

PreliminarySrst_Checked(r) == r.err

\* part_006:179-182: the value returned by the preliminary usbAssertSrst is dropped
PreliminarySrst(r) == FALSE

FinalSrst_Dropped(r) == FALSE

\* part_006:194-197: the error of the usbAssertSrst after mode entry is returned
FinalSrst(r) == r.err

\* part_006:77-209: the commands usbInitMode issues (those of GetTargetVoltage,
\* SetSpeed and usbGetComFreq, whose results it drops, are left out) and whether
\* it returns an error
usbInitMode(stlink, stMode0, connectUnderReset, o) ==
    LET l1 == <<"current_mode">>
        l2 == l1 \o (IF o.leave THEN <<"leave_mode">> ELSE <<>>) \o <<"current_mode">>
        first == IF connectUnderReset /\ stMode0 /= StLinkModeDebugSwim
                 THEN usbAssertSrst(stlink, o.srst1)
                 ELSE [log |-> <<>>, err |-> FALSE]
        l3 == l2 \o first.log
        l4 == l3 \o <<"mode_enter">>
        second == IF connectUnderReset THEN usbAssertSrst(stlink, o.srst2)
                  ELSE [log |-> <<>>, err |-> FALSE]
        l5 == l4 \o second.log
        l6 == l5 \o <<"current_mode">>
    IN IF ~o.mode1 THEN [log |-> l1, err |-> TRUE]
       ELSE IF ~o.mode2 THEN [log |-> l2, err |-> TRUE]
       ELSE IF stMode0 = StLinkModeUnknown THEN [log |-> l2, err |-> TRUE]
       ELSE IF PreliminarySrst(first) THEN [log |-> l3, err |-> TRUE]
       ELSE IF ~o.enter THEN [log |-> l4, err |-> TRUE]
       ELSE IF FinalSrst(second) THEN [log |-> l5, err |-> TRUE]
       ELSE IF ~o.mode3 THEN [log |-> l6, err |-> TRUE]
       ELSE [log |-> l6, err |-> FALSE]

\* part_006:77-209: one call of usbInitMode
InitModeCall ==
    /\ fnPc = "idle"
    /\ \E pm \in InitModeProbes, connectUnderReset \in BOOLEAN, o \in InitModeOutcomes :
        /\ fnArgs' = [fn |-> "usbInitMode", stlink |-> pm[1], stMode |-> pm[2],
                      connectUnderReset |-> connectUnderReset, o |-> o]
        /\ fnRes' = usbInitMode(pm[1], pm[2], connectUnderReset, o)
    /\ fnPc' = "done"
    /\ UNCHANGED <<handleVars, cmdVars, memVars, apVars, verVars, rttVars>>

NextMode ==
    \/ InitModeCall
    \/ FnReturn

SpecMode == InitSpeed /\ [][NextMode]_vars

----------------------------------------------------------------------------
(* Properties of the command engine (SpecCmd) *)

\* a finished call of usbCmdAllowRetry / usbTransferErrCheck on an API V2 or V3
\* probe in a debug mode whose transfer succeeded
DebugV2Answer ==
    /\ lastByte /= -1
    /\ jtagApi \in {jTagApiV2, jTagApiV3}
    /\ stMode /= StLinkModeDebugSwim

\* C1 as stated: for every sequence of probe responses a single call of
\* usbCmdAllowRetry performs at most 8 USB transfers of the command.
C1_AtMostEightTransfers ==
    cmdOp = "retry" => transfers <= maximumWaitRetries

\* C1 amended: a single call of usbCmdAllowRetry performs at most 9 transfers of
\* the command, the first one and one after each of the 8 sleeps.
C1_AtMostNineTransfers ==
    cmdOp = "retry" => transfers <= maximumWaitRetries + 1

C1_NineTransfersDone ==
    /\ cmdOp = "retry"
    /\ cmdPc = "done"
    /\ transfers = maximumWaitRetries + 1
    /\ Len(sleeps) = maximumWaitRetries

\* C2: on API V2 or V3 in a debug mode the status decoder yields the status OK
\* if and only if the first response byte is 0x80 or 0x0D.
C2_OkIffOkOrWriteVerify ==
    DebugV2Answer =>
        ((decoded.code = usbErrorOK) <=> (lastByte \in {debugErrorOk, jTagWriteVerifyError}))

C2_WriteVerifyDecoded ==
    /\ DebugV2Answer
    /\ lastByte = jTagWriteVerifyError
    /\ decoded.code = usbErrorOK

\* C3 as stated: a status-checked command answered with first byte 0x0D completes
\* as a success for its caller, no error is propagated to the caller.
C3_WriteVerifyReturnsNoError ==
    (cmdPc = "done" /\ DebugV2Answer /\ lastByte = jTagWriteVerifyError) => cmdErr.nil

\* C25 as stated: in every transport mode, SWIM included, a call of
\* usbCmdAllowRetry has transferred the command at least once whenever it has
\* decoded a status byte or has returned nil.
C25_CommandSentBeforeDecoding ==
    (cmdOp = "retry" /\ (decodes > 0 \/ (cmdPc = "done" /\ cmdErr.nil))) => transfers >= 1

\* C26 as stated: a call of usbCmdAllowRetry whose last transfer was answered
\* returns nil if and only if the status decoded from that answer is OK; a call
\* answered Wait through all permitted attempts returns an error.
C26_NilIffLastStatusOk ==
    (cmdOp = "retry" /\ cmdPc = "done" /\ decodes > 0 /\ ~cmdErr.io) =>
        /\ cmdErr.nil <=> (decoded.code = usbErrorOK)
        /\ (Len(sleeps) = maximumWaitRetries /\ decoded.code = usbErrorWait) => ~cmdErr.nil

\* C18: when the probe answers a command 0x14 three times and then 0x80,
\* usbCmdAllowRetry returns nil after exactly four transfers and has slept 1 ms,
\* 2 ms and 4 ms, in that order, between them.
C18_ThreeDpWaitsThenOk ==
    (cmdOp = "retry" /\ cmdPc = "done" /\ decodes = 4 /\ dpWaits = 3
        /\ lastByte = debugErrorOk) =>
        /\ cmdErr.nil
        /\ transfers = 4
        /\ sleeps = <<1000000, 2000000, 4000000>>

C18_FourAnswersConsumed ==
    /\ cmdOp = "retry"
    /\ cmdPc = "done"
    /\ decodes = 4
    /\ dpWaits = 3
    /\ lastByte = debugErrorOk
    /\ cmdErr.nil

\* sum of the sleeps of the current call, in nanoseconds
RECURSIVE SumSeq(_)
SumSeq(q) == IF q = <<>> THEN 0 ELSE Head(q) + SumSeq(Tail(q))

\* C19: the sleep before the n-th retry is 2^(n-1) ms, at most 128 ms, and a call
\* that retried at least once has slept between 1 ms and 255 ms in total.
C19_BackoffDoublesWithinBounds ==
    cmdOp = "retry" =>
        /\ \A n \in 1..Len(sleeps) :
              sleeps[n] = (2 ^ (n - 1)) * 1000000 /\ sleeps[n] <= 128 * 1000000
        /\ Len(sleeps) >= 1 =>
              (SumSeq(sleeps) >= 1000000 /\ SumSeq(sleeps) <= 255 * 1000000)

C19_AllEightSleepsTaken ==
    /\ cmdOp = "retry"
    /\ Len(sleeps) = maximumWaitRetries
    /\ SumSeq(sleeps) = 255 * 1000000

----------------------------------------------------------------------------
(* Properties of the memory read planner (SpecMem) *)

\* page - ((page - 1) & a) for a power of two page, or 4 if that is 0
PageBound(page, a) ==
    LET m == page - (a % page) IN IF m = 0 THEN 4 ELSE m

\* the access width the planner serves the request with (memory.go:139-142)
ServedWidth == IF req.size = 2 /\ ~has16 THEN 1 ELSE req.size

\* C4 as stated: every memory transaction the planner issues, of any width, has a
\* length of at most max_block_size(page, a) at its start address a.
C4_EveryLengthWithinPageBlock ==
    curTx.sent => curTx.len <= PageBound(maxMemPacket, curTx.addr)

\* C4 amended: every transaction of a request served 16 or 32 bits wide (head and
\* tail included) has a length of at most max_block_size(page, a); a transaction
\* of a request served 8 bits wide has a length of at most the 8-bit block size
\* (64 bytes, 512 with the 512-byte capability).
C4_LengthWithinBlockOfWidth ==
    curTx.sent =>
        IF ServedWidth /= 1
        THEN curTx.len <= PageBound(maxMemPacket, curTx.addr)
        ELSE curTx.len <= (IF rw8_512 THEN v3MaxReadWrite8 ELSE maxReadWrite8)

C4_WideReadCutAtPageEnd ==
    /\ curTx.sent
    /\ curTx.w = 32
    /\ curTx.len > 0
    /\ curTx.len = PageBound(maxMemPacket, curTx.addr)
    /\ req.count * req.size > curTx.len

\* C5: the planner never issues a 16-bit read at an odd address nor a 32-bit read
\* at an address that is not a multiple of 4.
C5_WideReadsAligned ==
    /\ curTx.w = 16 => curTx.addr % 2 = 0
    /\ curTx.w = 32 => curTx.addr % 4 = 0

C5_WideReadAfterHead ==
    /\ req.size \in {2, 4}
    /\ req.addr % req.size /= 0
    /\ curTx.sent
    /\ curTx.w \in {16, 32}
    /\ curTx.len > 0

\* C6 as stated: the sub-transactions of one read call have strictly increasing
\* start addresses, whatever the statuses the probe answers.
C6_StrictlyIncreasingStarts ==
    (prevTx.sent /\ curTx.sent) => curTx.addr > prevTx.addr

\* C6 amended: a sub-transaction sent right after one of non-zero length that the
\* probe answered OK starts where that one ended, at a strictly greater address.
C6_IncreasingAfterOk ==
    (prevTx.sent /\ curTx.sent /\ prevTx.st = usbErrorOK /\ prevTx.len > 0) =>
        /\ curTx.addr = prevTx.addr + prevTx.len
        /\ curTx.addr > prevTx.addr

C6_SecondAfterOkFirst ==
    /\ prevTx.sent
    /\ curTx.sent
    /\ prevTx.st = usbErrorOK
    /\ prevTx.len > 0
    /\ curTx.addr > prevTx.addr
    /\ nTx >= 3

\* C7 as stated: read_mem(0x20000001, 4, 1) with all answers OK emits exactly an
\* 8-bit read of 3 bytes at 0x20000001 and then a 32-bit read of 4 bytes at
\* 0x20000004.
C7_HeadThenWordRead ==
    (/\ memPc = "done"
     /\ req = [addr |-> 536870913, size |-> 4, count |-> 1]
     /\ allOk) =>
        /\ nTx = 2
        /\ prevTx = [w |-> 8, addr |-> 536870913, len |-> 3, st |-> usbErrorOK, sent |-> TRUE]
        /\ curTx = [w |-> 32, addr |-> 536870916, len |-> 4, st |-> usbErrorOK, sent |-> TRUE]

\* C7 amended: read_mem(0x20000001, 4, 1) with all answers OK emits exactly an
\* 8-bit read of 3 bytes at 0x20000001 and then an 8-bit read of 1 byte at
\* 0x20000004, and returns OK.
C7_HeadThenByteRead ==
    (/\ memPc = "done"
     /\ req = [addr |-> 536870913, size |-> 4, count |-> 1]
     /\ allOk) =>
        /\ nTx = 2
        /\ prevTx = [w |-> 8, addr |-> 536870913, len |-> 3, st |-> usbErrorOK, sent |-> TRUE]
        /\ curTx = [w |-> 8, addr |-> 536870916, len |-> 1, st |-> usbErrorOK, sent |-> TRUE]
        /\ memRet = usbErrorOK

C7_OneWordRequestServed ==
    /\ memPc = "done"
    /\ req = [addr |-> 536870913, size |-> 4, count |-> 1]
    /\ allOk
    /\ nTx = 2
    /\ memRet = usbErrorOK

\* C27: a sub-transaction answered with Wait is re-issued, and the Wait retries it
\* may use are not reduced by the Wait answers to earlier sub-transactions of the
\* same request; so a call that gives up with Wait has re-issued the
\* sub-transaction it gives up on: the command sent before the last one was the
\* same command, answered with Wait.
C27_WaitingSliceReissued ==
    (/\ memPc = "done"
     /\ memRet = usbErrorWait
     /\ curTx.sent
     /\ curTx.st = usbErrorWait
     /\ prevTx.sent) =>
        /\ prevTx.st = usbErrorWait
        /\ prevTx.w = curTx.w
        /\ prevTx.addr = curTx.addr
        /\ prevTx.len = curTx.len

\* C28: after a read call that returned OK the caller's buffer holds count*width
\* bytes and its i-th byte is the byte of the target memory at addr + i.
C28_SinkHoldsRequestedBytes ==
    (memPc = "done" /\ memRet = usbErrorOK) =>
        /\ Len(sink) = req.count * req.size
        /\ \A i \in 1..Len(sink) : sink[i] = req.addr + (i - 1)

C30_OneByteReadDeliversOne ==
    (curTx.sent /\ curIo.xfer /\ curTx.w = 8 /\ curTx.len = 1) =>
        /\ curIo.rlen = 2
        /\ curIo.copied = 1
        /\ sink[1] = curTx.addr

----------------------------------------------------------------------------
(* Properties of the access-port registry (SpecAp) *)

\* C8 as stated: bit k of openedAp is set if and only if an INIT_AP command for
\* k has completed successfully in this process.
C8_BitIffInitApSucceeded ==
    \A k \in APs : openedAp[k] <=> (k \in initApDone)

\* C9: once usbOpenAccessPort(k) has succeeded on a probe with the INIT_AP
\* capability, every later usbOpenAccessPort(k) returns success and sends no
\* INIT_AP command.
C9_ReopenSendsNothing ==
    (apLast.op = "open_ap" /\ apLast.prior) => (apLast.ok /\ ~apLast.sent)

C9_ReopenOfOpenedPort ==
    /\ apLast.op = "open_ap"
    /\ apLast.prior
    /\ apLast.ok
    /\ hasApInit
    /\ openedAp[apLast.k]

\* C10: the registry is monotonic: no step, a failed usbOpenAccessPort and Close
\* included, clears a bit that is set.
C10_RegistryMonotonic ==
    [][\A k \in APs : openedAp[k] => openedAp'[k]]_vars

C10_BitSurvivesClose ==
    /\ apLast.op = "close"
    /\ hState = "closed"
    /\ \E k \in APs : openedAp[k]

\* C15 as stated: after Close has been called on a handle, every operation
\* invoked on that handle returns an error, makes no USB transfer and releases no
\* USB object.
C15_ClosedHandleTouchesNoUsb ==
    apLast.closedBefore =>
        /\ apLast.released = <<>>
        /\ ~apLast.sent
        /\ apLast.op = "open_ap" => ~apLast.ok

\* C16: Close releases the interface, then the configuration, then the device,
\* each exactly once.
C16_InterfaceThenConfigThenDevice ==
    apLast.op = "close" =>
        \E i, j, k \in 1..Len(apLast.released) :
            /\ i < j /\ j < k
            /\ apLast.released[i] = "interface"
            /\ apLast.released[j] = "configuration"
            /\ apLast.released[k] = "device"
            /\ Len(apLast.released) = 3

C16_OpenHandleClosed ==
    /\ apLast.op = "close"
    /\ ~apLast.closedBefore
    /\ hState = "closed"
    /\ Len(apLast.released) = 3

\* C17 as stated: a probe open (with the device scan it starts with) attempted
\* while the process-wide USB context has never been initialised returns an error
\* to the caller; it does not end in a run-time panic.
C17_OpenWithoutContextReturnsError ==
    (apLast.op = "open" /\ apLast.ctx = "nil") => (~apLast.ok /\ ~apLast.panic)

\* C39 as stated: after InitUsb has returned success the process-wide USB context
\* is a live context, also when CloseUSB was called before: InitUsb then makes a
\* new context and does not keep the closed one.
C39_InitUsbLeavesLiveContext ==
    (apLast.op = "init_usb" /\ apLast.ok) => libUsbCtx = "live"

\* C40 as stated: when NewStLink fails after the USB device has been opened, every
\* USB object it has acquired by then (device, configuration, interface) is
\* released before it returns the error.
C40_FailedOpenReleasesUsbObjects ==
    (apLast.op = "open" /\ ~apLast.ok /\ ~apLast.panic) =>
        \A k \in 1..Len(apLast.acquired) :
            \E j \in 1..Len(apLast.released) : apLast.released[j] = apLast.acquired[k]

----------------------------------------------------------------------------
(* Properties of the version and capability probe (SpecVer) *)

\* C20: for a probe whose parsed major version is 2 the parse selects API V2 and
\* sets each capability bit exactly when the jtag counter meets its threshold;
\* no other bit is set.
C20_V2CapabilitiesByThreshold ==
    (verPc = "done" /\ verOk /\ version.stlink = 2) =>
        /\ jtagApi = jTagApiV2
        /\ (flagHasTrace \in verFlags) <=> (version.jtag >= 13)
        /\ (flagHasGetLastRwStatus2 \in verFlags) <=> (version.jtag >= 15)
        /\ (flagHasSwdSetFreq \in verFlags) <=> (version.jtag >= 22)
        /\ (flagHasJtagSetFreq \in verFlags) <=> (version.jtag >= 24)
        /\ (flagHasDapReg \in verFlags) <=> (version.jtag >= 24)
        /\ (flagQuirkJtagDpRead \in verFlags) <=> (version.jtag >= 24 /\ version.jtag < 32)
        /\ (flagHasMem16Bit \in verFlags) <=> (version.jtag >= 26)
        /\ (flagHasApInit \in verFlags) <=> (version.jtag >= 28)
        /\ (flagFixCloseAp \in verFlags) <=> (version.jtag >= 29)
        /\ (flagHasDpBankSel \in verFlags) <=> (version.jtag >= 32)
        /\ verFlags \subseteq {flagHasTrace, flagHasGetLastRwStatus2, flagHasSwdSetFreq,
                               flagHasJtagSetFreq, flagHasDapReg, flagQuirkJtagDpRead,
                               flagHasMem16Bit, flagHasApInit, flagFixCloseAp,
                               flagHasDpBankSel}

C20_V2J32Parsed ==
    /\ verPc = "done"
    /\ verOk
    /\ version.stlink = 2
    /\ version.jtag = 32
    /\ flagHasDpBankSel \in verFlags
    /\ flagQuirkJtagDpRead \notin verFlags

\* the parse has consumed the answer 20 E5 83 04 48 37 to the version command
ColdOpenAnswerParsed ==
    /\ verPc = "done"
    /\ verOk
    /\ verIn.word = convertToUint16(<<32, 229>>, bigEndian)
    /\ verIn.pid = convertToUint16(<<72, 55>>, littleEndian)

\* C21 as stated: after the version answer 20 E5 83 04 48 37 the capability set
\* holds TRACE, GETLASTRWSTATUS2, SWD_SET_FREQ, JTAG_SET_FREQ, DAP_REG, MEM_16BIT,
\* AP_INIT and FIX_CLOSE_AP, and holds none of DP_BANKSEL, RW8_512BYTES and
\* QUIRK_JTAG_DP_READ.
C21_ColdOpenHasV2J29Capabilities ==
    ColdOpenAnswerParsed =>
        /\ {flagHasTrace, flagHasGetLastRwStatus2, flagHasSwdSetFreq, flagHasJtagSetFreq,
            flagHasDapReg, flagHasMem16Bit, flagHasApInit, flagFixCloseAp} \subseteq verFlags
        /\ verFlags \cap {flagHasDpBankSel, flagHasRw8Bytes512, flagQuirkJtagDpRead} = {}

\* C21 amended: the version answer 20 E5 83 04 48 37 is the word 0x20E5, which
\* parses as major version 2, jtag counter 3 and swim counter 37; the parse selects
\* API V2 and sets no capability bit.
C21_ColdOpenIsV2J3WithoutCapabilities ==
    ColdOpenAnswerParsed =>
        /\ version = [stlink |-> 2, jtag |-> 3, swim |-> 37]
        /\ jtagApi = jTagApiV2
        /\ verFlags = {}

C21_ColdOpenAnswerSeen ==
    /\ ColdOpenAnswerParsed
    /\ ~verIn.extUsed
    /\ version.stlink = 2

----------------------------------------------------------------------------
(* Properties of the RTT engine (SpecRtt) *)

\* C11 as stated: a drain pass that directly follows a drain pass, with no write
\* by the target in between, delivers no bytes to the callback and writes no read
\* offset to target memory.
C11_SecondDrainIsEmpty ==
    (rttLast.op = "read" /\ rttLast.afterDrain) =>
        (rttLast.delivered = <<>> /\ rttLast.writes = <<>>)

\* C12 as stated: when a descriptor of the snapshot with a buffer size above 0 has
\* a read or write offset that is not below the buffer size, the drain pass returns
\* an error and writes nothing to target memory.
C12_BadOffsetsFailTheDrain ==
    (rttLast.op = "read" /\ rttLast.bad) =>
        (rttLast.res = "error" /\ rttLast.writes = <<>>)

\* C13 as stated: draining an up channel whose snapshot has size 16, read offset 14
\* and write offset 3 delivers exactly the 5 ring bytes at indices 14, 15, 0, 1, 2,
\* in that order, and writes 3 to the read-offset field of that channel.
C13_WrappedChannelDelivered ==
    \A i \in 0..(Len(rttChannels) - 1) :
        (/\ rttLast.op = "read"
         /\ rttLast.res /= "error"
         /\ ~rttLast.bad
         /\ i < seggerRtt.maxNumUpBuffers
         /\ ~rttChannels[i + 1].nil
         /\ rttChannels[i + 1].sizeOfBuffer = 16
         /\ rttChannels[i + 1].rdOff = 14
         /\ rttChannels[i + 1].wrOff = 3) =>
            LET b == rttChannels[i + 1].buffer
            IN /\ \E k \in 1..Len(rttLast.delivered) :
                    rttLast.delivered[k] =
                        [ch |-> i, bytes |-> <<b + 14, b + 15, b, b + 1, b + 2>>]
               /\ \E k \in 1..Len(rttLast.writes) :
                    /\ rttLast.writes[k].ch = i
                    /\ rttLast.writes[k].value = 3
                    /\ rttLast.writes[k].addr =
                         seggerRtt.ramStart + seggerRtt.offset + 24 + i * 24 + 16

\* C14: when the first scanned range that holds the marker holds it at offset
\* 0x100, followed by max_up = 3 and max_down = 3, discovery succeeds, records the
\* offset 0x100 and allocates a snapshot vector of 6 slots; in general a successful
\* discovery allocates max_up + max_down slots.
C14_DiscoveryRecordsOffsetAndSlots ==
    rttLast.op = "init" =>
        /\ rttLast.res = "ok" =>
              Len(rttChannels) = seggerRtt.maxNumUpBuffers + seggerRtt.maxNumDownBuffers
        /\ \A k \in 1..Len(rttLast.ranges) :
              (/\ \A j \in 1..(k - 1) :
                     rttLast.ranges[j].readOk /\ rttLast.ranges[j].sent = {}
               /\ rttLast.ranges[k].readOk
               /\ 256 \in rttLast.ranges[k].sent
               /\ \A o \in rttLast.ranges[k].sent : o >= 256
               /\ rttLast.ranges[k].up = 3
               /\ rttLast.ranges[k].down = 3) =>
                  /\ rttLast.res = "ok"
                  /\ seggerRtt.offset = 256
                  /\ seggerRtt.ramStart = rttLast.ranges[k].start
                  /\ Len(rttChannels) = 6

C14_FoundInSecondRange ==
    /\ rttLast.op = "init"
    /\ rttLast.res = "ok"
    /\ Len(rttLast.ranges) = 2
    /\ rttLast.ranges[2].sent = {256, 512}
    /\ seggerRtt.offset = 256
    /\ Len(rttChannels) = 6

\* the window a drain pass over the current snapshot reads
DrainWindow == RttWindow(RttBlocks(seggerRtt, rttChannels))

\* a drain pass that read its window: the up channels that held data
DrainedChannels ==
    IF rttLast.op = "read" /\ rttLast.res /= "error" /\ ~rttLast.bad
       /\ \A i \in 1..Len(rttChannels) : ~rttChannels[i].nil
       /\ RttBlocks(seggerRtt, rttChannels) /= {}
    THEN {i \in 0..(Len(rttChannels) - 1) :
            i < seggerRtt.maxNumUpBuffers /\ HasData(rttChannels[i + 1])}
    ELSE {}

\* C33: in a drain pass the index into the window used for an up channel is
\* (buffer - ram_start - min_start) + p, so that every byte delivered for the
\* channel is the target byte at buffer + p for the ring positions p from the
\* read offset to the write offset.
C33_RingReadAtItsPlaceInWindow ==
    \A i \in DrainedChannels :
        LET c == rttChannels[i + 1]
        IN /\ BufferOffset(seggerRtt, rttChannels, i, DrainWindow)
                = BufferOffset_InWindow(seggerRtt, rttChannels, i, DrainWindow)
           /\ rttLast.res = "ok"
           /\ \E k \in 1..Len(rttLast.delivered) :
                /\ rttLast.delivered[k].ch = i
                /\ \A j \in 1..Len(rttLast.delivered[k].bytes) :
                     rttLast.delivered[k].bytes[j]
                         = c.buffer + ((c.rdOff + j - 1) % c.sizeOfBuffer)

\* the write-backs of a drain pass for channel i
WritesOf(i) == {k \in 1..Len(rttLast.writes) : rttLast.writes[k].ch = i}

\* the channel got at least one byte in the drain pass
DeliveredTo(i) ==
    \E k \in 1..Len(rttLast.delivered) :
        rttLast.delivered[k].ch = i /\ rttLast.delivered[k].bytes /= <<>>

\* C34: in a drain pass, an up channel i that got at least one byte has exactly
\* one target write, of the updated read offset with width 4 and count 1 at
\* ram_start + control_block_offset + 24 + i*24 + 16; a channel that got no byte
\* has no target write.
C34_OneWriteBackPerDeliveredChannel ==
    rttLast.op = "read" =>
        \A i \in 0..(Len(rttChannels) - 1) :
            IF DeliveredTo(i)
            THEN /\ Cardinality(WritesOf(i)) = 1
                 /\ \A k \in WritesOf(i) :
                      /\ rttLast.writes[k].addr
                            = seggerRtt.ramStart + seggerRtt.offset + 24 + i * 24 + 16
                      /\ rttLast.writes[k].width = 4
                      /\ rttLast.writes[k].count = 1
                      /\ rttLast.writes[k].value = rttChannels[i + 1].wrOff
            ELSE WritesOf(i) = {}

C34_OnlyFirstChannelWrittenBack ==
    /\ rttLast.op = "read"
    /\ rttLast.res = "ok"
    /\ seggerRtt.maxNumUpBuffers >= 2
    /\ DeliveredTo(0)
    /\ ~DeliveredTo(1)
    /\ Cardinality(WritesOf(0)) = 1
    /\ WritesOf(1) = {}

\* C35: a failed discovery or channel update leaves the engine as it was (RAM
\* base, control-block offset, header counts, channel vector) and writes nothing
\* to the target.
C35_FailureLeavesEngineUnchanged ==
    (rttLast.op \in {"init", "update"} /\ rttLast.res = "error") =>
        (~rttLast.changed /\ rttLast.writes = <<>>)

\* C36: a channel update or a drain pass made when no discovery has succeeded
\* (the channel vector was never allocated) returns an error or does nothing, and
\* does not index outside the channel vector.
C36_NoDiscoveryNoAccess ==
    (rttLast.op \in {"update", "read"} /\ rttChannels = <<>>) =>
        /\ rttLast.res \in {"ok", "error"}
        /\ rttLast.delivered = <<>>
        /\ rttLast.writes = <<>>

\* C37: a drain pass returns success only if every write-back of a read offset
\* it attempted succeeded.
C37_FailedWriteBackFailsTheDrain ==
    (rttLast.op = "read" /\ rttLast.res = "ok") =>
        \A k \in 1..Len(rttLast.writes) : rttLast.writes[k].ok

----------------------------------------------------------------------------
(* Properties of the clock speed tables (SpecSpeed) *)

\* the non-zero entries (1-based) of the table of the call, and those not above
\* the request
ValidEntries == {i \in 1..Len(fnArgs.smap) : fnArgs.smap[i] /= 0}
QualifyingEntries == {i \in ValidEntries : fnArgs.smap[i] <= fnArgs.kHz}

\* C23 as stated: for every table and every request a match that returns an index
\* selects an entry with the largest speed not above the request; if there is
\* none, it selects an entry with the lowest non-zero speed of the table.
C23_LargestBelowElseSlowest ==
    (fnPc = "done" /\ fnArgs.fn = "matchSpeedMap" /\ ~fnRes.err /\ ~fnRes.panic
     /\ ValidEntries /= {}) =>
        LET sel == fnRes.index + 1
        IN IF QualifyingEntries /= {}
           THEN /\ sel \in QualifyingEntries
                /\ \A j \in QualifyingEntries : fnArgs.smap[j] <= fnArgs.smap[sel]
           ELSE /\ sel \in ValidEntries
                /\ \A j \in ValidEntries : fnArgs.smap[sel] <= fnArgs.smap[j]

\* C38: whenever matchSpeedMap returns without error, the index i it returns
\* satisfies 0 <= i < len(table) and the speed of entry i is not 0, for every
\* table, a V3 table of zero entries included.
C38_MatchedIndexInTable ==
    (fnPc = "done" /\ fnArgs.fn = "matchSpeedMap" /\ ~fnRes.err /\ ~fnRes.panic) =>
        /\ 0 <= fnRes.index
        /\ fnRes.index < Len(fnArgs.smap)
        /\ fnArgs.smap[fnRes.index + 1] /= 0

----------------------------------------------------------------------------
(* Properties of the command framing (SpecXfer) *)

\* C24: on a probe of major version 2 or 3 every command packet written to the TX
\* endpoint is exactly 16 bytes long, however many command and parameter bytes
\* were placed in the command buffer.
C24_CommandPacketIs16Bytes ==
    (fnPc = "done" /\ fnArgs.fn = "usbTransferNoErrCheck" /\ fnArgs.stlink \in {2, 3}) =>
        /\ fnRes.cmds /= <<>>
        /\ \A k \in 1..Len(fnRes.cmds) : Len(fnRes.cmds[k]) = 16

C24_FiveBytesPlacedOnV2 ==
    /\ fnPc = "done"
    /\ fnArgs.fn = "usbTransferNoErrCheck"
    /\ fnArgs.stlink = 2
    /\ fnArgs.cmdidx = 5
    /\ fnRes.ok
    /\ Len(fnRes.cmds) = 1

----------------------------------------------------------------------------
(* Properties of the mode initialisation (SpecMode) *)

\* a finished usbInitMode call that got past the two mode reads at its start
InitModeReached ==
    /\ fnPc = "done"
    /\ fnArgs.fn = "usbInitMode"
    /\ fnArgs.o.mode1
    /\ fnArgs.o.mode2

\* the position of the mode-enter command in the command log (0: not issued)
EnterAt ==
    IF \E k \in 1..Len(fnRes.log) : fnRes.log[k] = "mode_enter"
    THEN CHOOSE k \in 1..Len(fnRes.log) : fnRes.log[k] = "mode_enter"
    ELSE 0

\* C31: with connect_under_reset and a mode other than SWIM, a failed DRIVE_NRST
\* before mode entry does not end usbInitMode: the mode-enter command is issued
\* right after it (and the call can still succeed).
C31_PreliminaryResetFailureIgnored ==
    (/\ InitModeReached
     /\ fnArgs.connectUnderReset
     /\ fnArgs.stMode /= StLinkModeDebugSwim
     /\ fnArgs.stlink /= 1
     /\ ~fnArgs.o.srst1) =>
        /\ EnterAt > 1
        /\ fnRes.log[EnterAt - 1] = "drive_nrst"
        /\ (fnArgs.o.enter /\ fnArgs.o.srst2 /\ fnArgs.o.mode3) => ~fnRes.err

C31_OpenedAfterFailedReset ==
    /\ InitModeReached
    /\ fnArgs.connectUnderReset
    /\ fnArgs.stMode = StLinkModeDebugSwd
    /\ fnArgs.stlink = 2
    /\ ~fnArgs.o.srst1
    /\ EnterAt > 1
    /\ ~fnRes.err

====
